---- MODULE Spec2Model ----
(***************************************************************************)
(* Hermes: the hybrid event-reconciliation engine                          *)
(* (Hermes_api/src/services/eventProcessor.js, class HybridEventProcessor).*)
(*                                                                         *)
(* Two delivery paths feed processEvent: the WebSocket listeners and the   *)
(* periodic block scanner.  The persistent store is the variable db; the   *)
(* process's volatile state is running, isProcessing, live and scan.  An   *)
(* asynchronous call is cut at the awaits where other calls can interleave *)
(* with an effect: the read of the ProcessedEvent row (findUnique) and the *)
(* interactive transaction, which commits or rolls back as one unit.       *)
(*                                                                         *)
(* Token amounts are carried as the formatted decimal value (the result of *)
(* parseFloat(formatUnits(x, 18))): 10^18 does not fit TLC's integers.     *)
(***************************************************************************)
EXTENDS Integers, Sequences, FiniteSets, TLC

\* ------------------------------------------------------------------ bounds
\* Events the live listener delivers with a transaction hash (each once: a
\* repeated submission of an event comes from the scanner).
MaxDeliveries == 2
\* Notifications it delivers without one.
MaxIncomplete == 1
\* Process crashes (each followed by a restart).
MaxCrashes == 1
\* Distinct notifications whose transaction may throw.
MaxFaults == 1

\* Reads of the scanner (block number, checkpoint, range query) that fail.
MaxScanFaults == 1
\* processEvent calls run one after the other on a given store.
MaxSubmissions == 3

\* ------------------------------------------------------- program constants
\* fromBlock + 1000 at scanForMissedEvents.
MaxChunk == 1000

NoRow == -1
NoHash == "undefined"
NoIndex == -1

Bridge == "0xBridge"
Oracle == "0xOracle"

\* this.contracts, in Object.entries order; each with its events in
\* Object.entries(contractInfo.events) order.
Contracts == <<Bridge, Oracle>>

ContractEvents(c) ==
  IF c = Bridge
    THEN <<"USDTSwappedForUGDX", "UGDXBurnedForWithdrawal", "MobileMoneyMintUGDX">>
    ELSE <<"PriceUpdated">>

\* The events startWebSocketListeners subscribes to.
LiveEvents == {"USDTSwappedForUGDX", "UGDXBurnedForWithdrawal", "PriceUpdated"}

\* prisma.user: the users, and wallet address -> user id (0: no such user).
Users == {1, 2}
\* prisma.mobileMoneyJob: the ids of the payout jobs.
Jobs == {1, 2}
UserOfWallet(w) == IF w = "0xW1" THEN 1 ELSE IF w = "0xW2" THEN 2 ELSE 0

\* ------------------------------------------------------------------- chain
\* The chain's event log, in chain order (block number, then log index).
\* amount is the event's ugdxAmount (newRate for PriceUpdated), timestamp
\* its timestamp in seconds.
ChainLog ==
  << [id |-> 1, name |-> "USDTSwappedForUGDX", address |-> Bridge, blockNumber |-> 2,
      transactionHash |-> "0xa", logIndex |-> 0, user |-> "0xW1", amount |-> 5, timestamp |-> 20],
     [id |-> 2, name |-> "MobileMoneyMintUGDX", address |-> Bridge, blockNumber |-> 3,
      transactionHash |-> "0xb", logIndex |-> 1, user |-> "0xW1", amount |-> 7, timestamp |-> 30],
     [id |-> 3, name |-> "USDTSwappedForUGDX", address |-> Bridge, blockNumber |-> 4,
      transactionHash |-> "0xc", logIndex |-> 0, user |-> "0xW1", amount |-> 2, timestamp |-> 40],
     [id |-> 4, name |-> "PriceUpdated", address |-> Oracle, blockNumber |-> 2000,
      transactionHash |-> "0xd", logIndex |-> 3, user |-> "none", amount |-> 3700,
      timestamp |-> 20000] >>

\* The chain heads the model passes through, ascending.
Heads == <<1, 5, 2001>>

Events == {ChainLog[i] : i \in 1..Len(ChainLog)}
EventIds == {e.id : e \in Events}

\* What the live transport hands to a listener: the event, or the event with
\* its transaction hash missing.
Incomplete(e) == [e EXCEPT !.transactionHash = NoHash]
LivePayloads ==
  {e \in Events : e.name \in LiveEvents} \cup
  {Incomplete(e) : e \in {x \in Events : x.name \in LiveEvents}}

Max(a, b) == IF a >= b THEN a ELSE b
Min(a, b) == IF a <= b THEN a ELSE b

VARIABLES
  head,          \* index into Heads: the chain's current block number
  db,            \* the persistent store (prisma)
  mmRequests,    \* payouts requested from the mobile-money rail (external)
  running,       \* the process is up and initialize() has run
  isProcessing,  \* HybridEventProcessor.isProcessing
  live,          \* live processEvent calls: payload -> "idle" | "tx"
  scan,          \* the scan cycles: "startup" and "timer"
  delivered,     \* ids of the events the live listener has delivered (history)
  incomplete,    \* notifications delivered without a transaction hash (history)
  skipped,       \* a timer tick was skipped during the scan in progress (history)
  crashes,       \* crashes so far
  threw,         \* ids of the events for which a transaction threw (history)
  handlerRuns,   \* event id -> committed executions of its handler (history)
  bootRuns,      \* handlerRuns as it was at the last initialize() (history)
  scanFaults,    \* failed reads of the scanner (history)
  submitted,     \* the processEvent calls run alone: event id, fault (history)
  legacyWs,      \* the listener of listeners.js: transport and subscriptions
  hybridWs,      \* the listener of startWebSocketListeners: the same
  relay,         \* the executeMetaTx calls: call -> position, arguments, result
  dryRuns,       \* the static calls the forwarder has answered (history)
  chainTxs,      \* the forwarder transactions sent to the chain (history)
  verifyCall,    \* a verifyMetaTxSignature call: its arguments and its result
  nonces,        \* the forwarder's nonce of each signer (chain)
  mined,         \* call -> what the chain did with its transaction (chain)
  flows,         \* the p2p requests: call -> position, request, response
  ledger,        \* gasCredit, GasDrip, P2PTransaction, MobileMoneyJob (prisma), and the
                 \* committed gasCredit updates of each user (history)
  storeFaults,   \* writes of the ledger that failed (history)
  debits,        \* the gas debits: debit -> position, user record read, cost
  ugdx,          \* UGDxToken: balances, totalSupply, paused (chain)
  exchange,      \* Exchange: paused, ETH held (chain)
  lastTx,        \* the receipt of the last token/exchange transaction (chain)
  txCount,       \* token/exchange transactions so far (history)
  oracle,        \* UGDXPriceOracle: prices, sources, settings (chain)
  oracleTx,      \* the receipt of the last oracle transaction (chain)
  oracleTxs,     \* oracle transactions so far (history)
  blockTime,     \* block.timestamp of the last oracle transaction's block
  p2pCalls,      \* the calls of the p2p event processor: call -> position, event
  p2pStore,      \* what the p2p event processor reads and writes (prisma), the payouts
                 \* it has requested (external) and the analytics updates committed for
                 \* each event (history)
  p2pFaults,     \* writes of the p2p event processor that failed (history)
  confirms,      \* the confirmPayment requests: call -> position, job id, answer
  payments,      \* MobileMoneyJob and Transaction of the deposits (prisma) and the
                 \* adminMintUGDX transactions mined for each job (chain)
  paymentFaults  \* writes of confirmPayment that failed (history)

\* The state of the reconciliation engine, and the rest.
engineVars == <<head, db, mmRequests, running, isProcessing, live, scan,
                delivered, incomplete, skipped, crashes, threw, handlerRuns,
                bootRuns, scanFaults>>
handlerVars == <<submitted>>
listenerVars == <<legacyWs, hybridWs>>
relayVars == <<relay, dryRuns, chainTxs>>
verifyVars == <<verifyCall>>
p2pVars == <<nonces, mined, flows, ledger, storeFaults>>
gasVars == <<debits>>
contractVars == <<ugdx, exchange, lastTx, txCount>>
oracleVars == <<oracle, oracleTx, oracleTxs, blockTime>>
p2pEventVars == <<p2pCalls, p2pStore, p2pFaults>>
paymentVars == <<confirms, payments, paymentFaults>>
serviceVars == <<contractVars, oracleVars, p2pEventVars, paymentVars>>
backendVars == <<engineVars, handlerVars, listenerVars, relayVars, verifyVars, p2pVars,
                 gasVars>>
accountVars == <<verifyVars, p2pVars, gasVars, serviceVars>>
notEngine == <<handlerVars, listenerVars, relayVars, accountVars>>

vars == <<engineVars, notEngine>>

Scanners == {"startup", "timer"}

IdleScan == [pc |-> "idle", currentBlock |-> 0, ci |-> 0, ti |-> 0,
             fromBlock |-> 0, toBlock |-> 0, queue |-> <<>>]

\* ------------------------------------------------------------------- store
\* txHash_logIndex: { txHash: transactionHash, logIndex: logIndex || 0 }
Key(p) == <<p.transactionHash, IF p.logIndex = NoIndex THEN 0 ELSE p.logIndex>>

\* prisma.processedEvent.findUnique
FindUnique(d, p) == {r \in d.processedEvent : r.key = Key(p)}

\* A processEvent that does not look at the row it read.
AlreadyProcessedIgnored(d, p) == FALSE

\* existingEvent && existingEvent.processed
AlreadyProcessed(d, p) == \E r \in FindUnique(d, p) : r.processed

\* A processedEvent upsert whose update branch clears the flag.
UpsertClearing(d, p) ==
  IF FindUnique(d, p) # {}
    THEN [d EXCEPT !.processedEvent =
            {IF r.key = Key(p) THEN [r EXCEPT !.processed = FALSE] ELSE r : r \in @}]
    ELSE [d EXCEPT !.processedEvent =
            @ \cup {[key |-> Key(p), processed |-> TRUE, eventName |-> p.name,
                     blockNumber |-> p.blockNumber]}]

\* tx.processedEvent.upsert
Upsert(d, p) ==
  IF FindUnique(d, p) # {}
    THEN [d EXCEPT !.processedEvent =
            {IF r.key = Key(p) THEN [r EXCEPT !.processed = TRUE] ELSE r : r \in @}]
    ELSE [d EXCEPT !.processedEvent =
            @ \cup {[key |-> Key(p), processed |-> TRUE, eventName |-> p.name,
                     blockNumber |-> p.blockNumber]}]

\* A mint handler that records the MINT and leaves the balance alone.
HandleMintNoCredit(d, p) ==
  LET uid == UserOfWallet(p.user) IN
  IF uid = 0 THEN d
  ELSE [d EXCEPT
          !.transaction = Append(@, [userId |-> uid, type |-> "MINT",
                                     ugdxAmount |-> p.amount,
                                     txHash |-> p.transactionHash,
                                     status |-> "COMPLETED", mmJob |-> 0])]

\* handleUSDTSwappedForUGDX, handleMobileMoneyMintUGDX
HandleMint(d, p) ==
  LET uid == UserOfWallet(p.user) IN
  IF uid = 0 THEN d
  ELSE [d EXCEPT
          !.transaction = Append(@, [userId |-> uid, type |-> "MINT",
                                     ugdxAmount |-> p.amount,
                                     txHash |-> p.transactionHash,
                                     status |-> "COMPLETED", mmJob |-> 0]),
          !.ugdxCredit[uid] = @ + p.amount]

\* The index of the first pending REDEEM or SEND record of a user (0: none).
FirstPending(d, uid) ==
  LET idx == {i \in 1..Len(d.transaction) :
                /\ d.transaction[i].userId = uid
                /\ d.transaction[i].status = "PENDING"
                /\ d.transaction[i].type \in {"REDEEM", "SEND"}}
  IN IF idx = {} THEN 0 ELSE CHOOSE i \in idx : \A j \in idx : i <= j

\* A burn handler without the check of the user: the filter userId:
\* undefined matches the pending records of every user.
HandleBurnNoUserCheck(d, p) ==
  LET idx == {i \in 1..Len(d.transaction) :
                /\ d.transaction[i].status = "PENDING"
                /\ d.transaction[i].type \in {"REDEEM", "SEND"}}
  IN IF idx = {} THEN d
     ELSE LET i == CHOOSE k \in idx : \A j \in idx : k <= j
          IN [d EXCEPT !.transaction[i].status = "COMPLETED",
                       !.transaction[i].txHash = p.transactionHash]

\* handleUGDXBurnedForWithdrawal: the store's part.  pendingTxs[0] is taken
\* as the record created first (findMany is given no orderBy).
HandleBurn(d, p) ==
  LET uid == UserOfWallet(p.user)
      i == FirstPending(d, uid)
  IN IF uid = 0 \/ i = 0 THEN d
     ELSE [d EXCEPT !.transaction[i].status = "COMPLETED",
                    !.transaction[i].txHash = p.transactionHash]

\* handleUGDXBurnedForWithdrawal: the job handed to mmService.requestToPay
\* (0: no call).
BurnPayout(d, p) ==
  LET uid == UserOfWallet(p.user)
      i == FirstPending(d, uid)
  IN IF p.name = "UGDXBurnedForWithdrawal" /\ uid # 0 /\ i # 0
        /\ d.transaction[i].mmJob # 0 /\ d.transaction[i].type = "REDEEM"
       THEN d.transaction[i].mmJob ELSE 0

\* new Date(Number(timestamp) * 1000): seconds to milliseconds.
ToDate(timestamp) == timestamp * 1000

\* A price handler that creates a row for every event (autoincremented id)
\* in place of the upsert of row 1.
HandlePriceUpdatedCreate(d, p) ==
  [d EXCEPT !.oraclePrice =
     @ \cup {[id |-> Cardinality(@) + 1, currentRate |-> p.amount,
              lastUpdated |-> ToDate(p.timestamp)]}]

\* handlePriceUpdated: tx.oraclePrice.upsert({ where: { id: 1 }, ... })
HandlePriceUpdated(d, p) ==
  IF \E r \in d.oraclePrice : r.id = 1
    THEN [d EXCEPT !.oraclePrice =
            {IF r.id = 1 THEN [r EXCEPT !.currentRate = p.amount,
                                        !.lastUpdated = ToDate(p.timestamp)]
                         ELSE r : r \in @}]
    ELSE [d EXCEPT !.oraclePrice =
            @ \cup {[id |-> 1, currentRate |-> p.amount,
                     lastUpdated |-> ToDate(p.timestamp)]}]

\* executeEventLogic
ExecuteEventLogic(d, p) ==
  CASE p.name = "USDTSwappedForUGDX" -> HandleMint(d, p)
    [] p.name = "MobileMoneyMintUGDX" -> HandleMint(d, p)
    [] p.name = "UGDXBurnedForWithdrawal" -> HandleBurn(d, p)
    [] p.name = "PriceUpdated" -> HandlePriceUpdated(d, p)
    [] OTHER -> d

\* updateLastProcessedBlock: lastProcessedBlock: Math.max(blockNumber, 0)
UpdateLastProcessedBlock(d, contractAddress, blockNumber) ==
  [d EXCEPT !.eventProcessingState[contractAddress] = Max(blockNumber, 0)]

\* tx.eventProcessingState.update throws when the contract has no row.
CheckpointThrows(d, contractAddress) ==
  d.eventProcessingState[contractAddress] = NoRow

\* Where a transaction may throw: nowhere, in the handler, or in the
\* checkpoint update.
Faults == {"none", "handler", "checkpoint"}

Throws(d, p, fault) == fault # "none" \/ CheckpointThrows(d, p.address)

\* The three writes made one after the other with no transaction around
\* them: a throw leaves what was written before it.
TransactionNoRollback(d, p, fault) ==
  LET s1 == Upsert(d, p)
      s2 == ExecuteEventLogic(s1, p)
      s3 == UpdateLastProcessedBlock(s2, p.address, p.blockNumber)
  IN IF fault = "handler" THEN s1
     ELSE IF Throws(d, p, fault) THEN s2
     ELSE s3

\* prisma.$transaction of processEvent: the upsert, the handler and the
\* checkpoint update commit together; a throw rolls all of them back.
Transaction(d, p, fault) ==
  LET s1 == Upsert(d, p)
      s2 == ExecuteEventLogic(s1, p)
      s3 == UpdateLastProcessedBlock(s2, p.address, p.blockNumber)
  IN IF Throws(d, p, fault) THEN d ELSE s3

\* requestToPay is an external call: a rollback does not undo it.  It has
\* been made when the handler ran to its end.
PayoutMade(d, p, fault) ==
  IF fault # "handler" THEN BurnPayout(Upsert(d, p), p) ELSE 0

\* A processEvent without the check of the transaction hash.
ProcessEventEntryUnchecked(d, p) ==
  IF AlreadyProcessed(d, p) THEN "skip" ELSE "tx"

\* processEvent up to the transaction: "discard" (no transaction hash),
\* "skip" (already processed) or "tx" (go on to the transaction).
ProcessEventEntry(d, p) ==
  IF p.transactionHash = NoHash THEN "discard"
  ELSE IF AlreadyProcessed(d, p) THEN "skip"
  ELSE "tx"

\* An upsert that resets the checkpoint of an existing row.
InitializeProcessingStateReset(d) ==
  [d EXCEPT !.eventProcessingState = [c \in DOMAIN @ |-> 0]]

\* initializeProcessingState: upsert with update: {}
InitializeProcessingState(d) ==
  [d EXCEPT !.eventProcessingState =
     [c \in DOMAIN @ |-> IF @[c] = NoRow THEN 0 ELSE @[c]]]

\* ---------------------------------------------------------------- scanner
\* contract.queryFilter(filter, fromBlock, toBlock): the chain client's range
\* query (eth_getLogs) takes both ends inclusive.
QueryFilter(c, eventName, fromBlock, toBlock) ==
  SelectSeq(ChainLog, LAMBDA e : /\ e.address = c
                                 /\ e.name = eventName
                                 /\ fromBlock <= e.blockNumber
                                 /\ e.blockNumber <= toBlock)

\* The blocks one such query covers.
BlocksQueried(fromBlock, toBlock) == fromBlock..toBlock

\* state && state.lastProcessedBlock < currentBlock - 1
NeedsScan(lastProcessedBlock, currentBlock) ==
  lastProcessedBlock # NoRow /\ lastProcessedBlock < currentBlock - 1

ScanFromBlock(lastProcessedBlock) == lastProcessedBlock + 1

\* A scan with no chunking: up to the head.
ScanToBlockUnbounded(currentBlock, fromBlock) == currentBlock

ScanToBlock(currentBlock, fromBlock) == Min(currentBlock, fromBlock + MaxChunk)

\* The for loop over the contracts moves on (or the scan ends).
NextContract(r) ==
  IF r.ci < Len(Contracts)
    THEN [IdleScan EXCEPT !.pc = "state", !.currentBlock = r.currentBlock,
                          !.ci = r.ci + 1]
    ELSE IdleScan

\* The for loop over a contract's event types moves on.
AfterType(r) ==
  IF r.ti < Len(ContractEvents(Contracts[r.ci]))
    THEN [r EXCEPT !.pc = "query", !.ti = r.ti + 1, !.queue = <<>>]
    ELSE NextContract(r)

\* The for loop over the events found moves on.
AfterEvent(r) ==
  IF Len(r.queue) > 1
    THEN [r EXCEPT !.pc = "find", !.queue = Tail(r.queue)]
    ELSE AfterType(r)

\* A timer callback without the guard.
TickStartsScanUnguarded == TRUE

\* if (!this.isProcessing) at the timer callback
TickStartsScan == ~isProcessing

\* --------------------------------------------------- the live subscriptions
\* The transports a listener may lose (by a close, or an error and the
\* close that follows it).
MaxTransportFailures == 4
\* Notifications the chain emits for the subscribed events.
MaxNotifications == 2

\* A listener before its process has subscribed: no transport, no
\* subscription on any event, no reconnect timer, nothing lost yet.
NoListener ==
  [conn |-> "none", subs |-> [e \in LiveEvents |-> 0], timers |-> 0,
   failures |-> 0, got |-> 0, missed |-> 0]

ListenersDown == legacyWs = NoListener /\ hybridWs = NoListener

\* contract.on(eventName, ...) for each of the events: one more subscription
\* on each, over a transport that is open.
Subscribe(w) ==
  [w EXCEPT !.conn = "open", !.subs = [e \in LiveEvents |-> @[e] + 1]]

\* removeAllListeners() on the contracts.
RemoveAllListeners(w) == [w EXCEPT !.subs = [e \in LiveEvents |-> 0]]

\* Subscribed: the transport is open and each event has its subscription.
Subscribed(w) == w.conn = "open" /\ \A e \in LiveEvents : w.subs[e] >= 1

\* The chain emits an event: a listener's callbacks run once for each
\* subscription it holds on an open transport; otherwise it misses the event.
Notified(w, e) ==
  IF w.conn = "open" /\ w.subs[e] >= 1
    THEN [w EXCEPT !.got = @ + w.subs[e]]
    ELSE [w EXCEPT !.missed = @ + 1]

\* ---------------------------------------------------------------- the relay
\* executeMetaTx calls.
MaxRelayCalls == 2

RelayCalls == 1..MaxRelayCalls

\* The requests and the signatures handed to executeMetaTx.
Requests ==
  { [from |-> "0xW1", to |-> "0xUGDX", nonce |-> 0, data |-> "transfer"],
    [from |-> "0xW1", to |-> Bridge, nonce |-> 1, data |-> "burnForWithdrawal"] }

Signatures == {"sigA", "sigB"}

\* err.reason of a call the forwarder reverts.
RevertReasons == {"ERC2771ForwarderInvalidSigner", "ERC2771ForwarderExpiredRequest"}

NoCall == [pc |-> "idle", request |-> "none", signature |-> "none",
           result |-> "none"]

RelayIdle ==
  /\ relay = [c \in RelayCalls |-> NoCall]
  /\ dryRuns = {}
  /\ chainTxs = {}

\* ---------------------------------------------------- typed-data signatures
\* The signing keys and the address of each, in the checksum case ethers
\* returns it.
Keys == {"K1", "K2"}
AddressOf(k) == IF k = "K1" THEN "0xW1" ELSE "0xW2"

UGDX == "0xUGDX"
Forwarder == "0xForwarder"

\* String.prototype.toLowerCase on the addresses of the model.
ToLowerCase(a) ==
  CASE a = "0xW1" -> "0xw1"
    [] a = "0xW2" -> "0xw2"
    [] a = "0xW9" -> "0xw9"
    [] a = "0xUGDX" -> "0xugdx"
    [] a = "0xBridge" -> "0xbridge"
    [] a = "0xForwarder" -> "0xforwarder"
    [] a = "0xOther" -> "0xother"
    [] OTHER -> a

\* createMetaTxRequest(from, to, data, nonce, chainId, forwarderAddress).
createMetaTxRequest(from, to, data, nonce, chainId, forwarderAddress) ==
  [from |-> from, to |-> to, value |-> 0, gas |-> 300000, nonce |-> nonce,
   data |-> data, validUntil |-> 0]

getForwarderDomain(chainId, forwarderAddress) ==
  [name |-> "ERC2771Forwarder", version |-> "0.0.1", chainId |-> chainId,
   verifyingContract |-> forwarderAddress]

\* A ForwardRequest type that leaves the nonce out of what is signed.
getMetaTxTypesNoNonce ==
  << [name |-> "from", type |-> "address"], [name |-> "to", type |-> "address"],
     [name |-> "value", type |-> "uint256"], [name |-> "gas", type |-> "uint256"],
     [name |-> "data", type |-> "bytes"],
     [name |-> "validUntil", type |-> "uint256"] >>

\* getMetaTxTypes().ForwardRequest.
getMetaTxTypes ==
  << [name |-> "from", type |-> "address"], [name |-> "to", type |-> "address"],
     [name |-> "value", type |-> "uint256"], [name |-> "gas", type |-> "uint256"],
     [name |-> "nonce", type |-> "uint256"], [name |-> "data", type |-> "bytes"],
     [name |-> "validUntil", type |-> "uint256"] >>

\* The encoding of one typed field: an address is its 20 bytes, whatever the
\* case it was written in.
EncodeField(type, v) == IF type = "address" THEN ToLowerCase(v) ELSE v

\* The EIP-712 digest of a value under a domain: the domain separator and
\* the encoded fields the type lists, in order. Two digests are equal exactly
\* when these are (the hash is collision-free).
TypedDataHash(domain, types, value) ==
  [domain |-> [domain EXCEPT !.verifyingContract = ToLowerCase(@)],
   message |-> [i \in 1..Len(types) |->
                  EncodeField(types[i].type, value[types[i].name])]]

\* signer.signTypedData(domain, types, request) with key k.
signTypedData(k, domain, types, value) ==
  [key |-> k, digest |-> TypedDataHash(domain, types, value)]

\* A string that is not a signature.
MalformedSignature == [key |-> "none", digest |-> "none"]

\* ethers.verifyTypedData: throws for a malformed signature; recovers the
\* signer's address when the signature was made over this digest, and an
\* address nobody holds the key of otherwise.
Thrown == "thrown"
Unrelated == "0xRecovered"

verifyTypedData(domain, types, value, signature) ==
  IF signature.key \notin Keys
    THEN Thrown
    ELSE IF signature.digest = TypedDataHash(domain, types, value)
      THEN AddressOf(signature.key)
      ELSE Unrelated

\* A comparison of the two addresses as written.
verifyMetaTxSignatureExact(request, signature, chainId, forwarderAddress) ==
  LET recoveredAddress ==
        verifyTypedData(getForwarderDomain(chainId, forwarderAddress),
                        getMetaTxTypes, request, signature)
  IN  IF recoveredAddress = Thrown
        THEN FALSE
        ELSE recoveredAddress = request.from

\* A verification that looks at who signed and not at what was signed.
verifyMetaTxSignatureSignerOnly(request, signature, chainId, forwarderAddress) ==
  /\ signature.key \in Keys
  /\ ToLowerCase(AddressOf(signature.key)) = ToLowerCase(request.from)

\* verifyMetaTxSignature(request, signature, chainId, forwarderAddress).
verifyMetaTxSignature(request, signature, chainId, forwarderAddress) ==
  LET recoveredAddress ==
        verifyTypedData(getForwarderDomain(chainId, forwarderAddress),
                        getMetaTxTypes, request, signature)
  IN  IF recoveredAddress = Thrown
        THEN FALSE
        ELSE ToLowerCase(recoveredAddress) = ToLowerCase(request.from)

\* The chain ids and the ways a presented request or domain may differ from
\* the one that was signed.
ChainIds == {80002, 137}
Tampers == {"none", "fromCase", "from", "to", "value", "gas", "nonce", "data",
            "validUntil", "chainId", "forwarder"}

OtherAddress(a) == IF ToLowerCase(a) = "0xw1" THEN "0xW2" ELSE "0xW1"

TamperedRequest(r, kind) ==
  CASE kind = "fromCase" -> [r EXCEPT !.from = IF @ = ToLowerCase(@)
                                                 THEN AddressOf(IF @ = "0xw1" THEN "K1" ELSE "K2")
                                                 ELSE ToLowerCase(@)]
    [] kind = "from" -> [r EXCEPT !.from = OtherAddress(@)]
    [] kind = "to" -> [r EXCEPT !.to = "0xOther"]
    [] kind = "value" -> [r EXCEPT !.value = @ + 1]
    [] kind = "gas" -> [r EXCEPT !.gas = @ + 1]
    [] kind = "nonce" -> [r EXCEPT !.nonce = @ + 1]
    [] kind = "data" -> [r EXCEPT !.data = "sendP2POnChain(0xW2, 500)"]
    [] kind = "validUntil" -> [r EXCEPT !.validUntil = @ + 1]
    [] OTHER -> r

\* No verifyMetaTxSignature call.
NoVerify == [pc |-> "idle", result |-> FALSE]
VerifierIdle == verifyCall = NoVerify

\* ------------------------------------------------------- the p2p requests
\* Store writes of the p2p handlers and of the gas debits that fail.
MaxStoreFaults == 1

\* The wallet of each user, and the key it is the address of. User 1 has a
\* stored key (user.sensei), user 2 keeps its key.
WalletOf(u) == IF u = 1 THEN "0xW1" ELSE "0xW2"
KeyOf(u) == IF u = 1 THEN "K1" ELSE "K2"
HasSensei(u) == u = 1

NoFlow == [pc |-> "idle"]
NoResponse == [status |-> 0]

P2PIdle ==
  /\ nonces = [a \in {"0xw1", "0xw2"} |-> 0]
  /\ mined = [c \in RelayCalls |-> "none"]
  /\ flows = [c \in RelayCalls |-> NoFlow]
  /\ ledger = [gasCredit |-> [u \in Users |-> 5],
               gasDrip |-> <<>>,
               p2PTransaction |-> <<>>,
               mobileMoneyJob |-> <<>>,
               creditUpdates |-> [u \in Users |-> 0]]
  /\ storeFaults = 0

\* Gas debits in flight.
MaxDebits == 2
Debits == 1..MaxDebits
NoDebit == [pc |-> "idle"]
GasIdle == debits = [d \in Debits |-> NoDebit]

\* ------------------------------------------------- the token and the exchange
\* The accounts: the deployer (owner of both contracts), a user, and the
\* Exchange contract itself.
Accounts == {"owner", "user1", "exchange"}

MaxTxs == 4

\* uint256 public constant EXCHANGE_RATE = 1000000
EXCHANGE_RATE == 1000000

NoTx == [fn |-> "none"]

\* A transaction's receipt: mined with its events, or reverted.
Mined(fn, sender, amount, events) ==
  [fn |-> fn, sender |-> sender, amount |-> amount, status |-> "ok", events |-> events]
Reverted(fn, sender, amount, why) ==
  [fn |-> fn, sender |-> sender, amount |-> amount, status |-> "reverted",
   events |-> <<>>, why |-> why]

\* ERC20._mint under the token's _beforeTokenTransfer (whenNotPaused).
ERC20Mint(t, to, amount) ==
  [t EXCEPT !.balances[to] = @ + amount, !.totalSupply = @ + amount]

\* ERC20._burn: the balance of the account must cover the amount.
ERC20Burn(t, account, amount) ==
  [t EXCEPT !.balances[account] = @ - amount, !.totalSupply = @ - amount]

\* ERC20.transfer(to, amount) called by from.
ERC20Transfer(t, from, to, amount) ==
  [t EXCEPT !.balances[from] = @ - amount, !.balances[to] = @ + amount]

\* The contracts as the test's beforeEach leaves them: both deployed by the
\* owner, liquidity minted to the exchange.
ContractsDeployed ==
  /\ ugdx = [balances |-> [a \in Accounts |-> IF a = "exchange" THEN 3 * EXCHANGE_RATE ELSE 0],
             totalSupply |-> 3 * EXCHANGE_RATE, paused |-> FALSE]
  /\ exchange = [paused |-> FALSE, eth |-> 0]
  /\ lastTx = NoTx
  /\ txCount = 0

\* A transaction is mined: the contracts' new state and the receipt.
Transact(t, x, receipt) ==
  /\ txCount' = txCount + 1
  /\ ugdx' = IF receipt.status = "ok" THEN t ELSE ugdx
  /\ exchange' = IF receipt.status = "ok" THEN x ELSE exchange
  /\ lastTx' = receipt
  /\ UNCHANGED <<backendVars, oracleVars, p2pEventVars, paymentVars>>

\* UGDxToken.mint(to, amount) sent by sender.
TokenMint(sender, to, amount) ==
  /\ txCount < MaxTxs
  /\ Transact(ERC20Mint(ugdx, to, amount), exchange,
           IF sender # "owner" THEN Reverted("mint", sender, amount, "Ownable: caller is not the owner")
           ELSE IF ugdx.paused THEN Reverted("mint", sender, amount, "Pausable: paused")
           ELSE IF amount <= 0 THEN Reverted("mint", sender, amount, "UGDx: Amount must be positive")
           ELSE Mined("mint", sender, amount,
                      <<[name |-> "Transfer", from |-> "0x0", to |-> to, amount |-> amount],
                        [name |-> "TokensMinted", to |-> to, amount |-> amount]>>))

\* UGDxToken.burn(amount) called by msgSender: the receipt's status and
\* events of the call, and the token after it.
burn(t, msgSender, amount) ==
  IF t.paused THEN [ok |-> FALSE, why |-> "Pausable: paused"]
  ELSE IF amount <= 0 THEN [ok |-> FALSE, why |-> "UGDx: Amount must be positive"]
  ELSE IF t.balances[msgSender] < amount
    THEN [ok |-> FALSE, why |-> "ERC20: burn amount exceeds balance"]
  ELSE [ok |-> TRUE, token |-> ERC20Burn(t, msgSender, amount),
        events |-> <<[name |-> "Transfer", from |-> msgSender, to |-> "0x0", amount |-> amount],
                     [name |-> "TokensBurned", from |-> msgSender, amount |-> amount]>>]

\* UGDxToken.burn(amount) sent by sender.
TokenBurn(sender, amount) ==
  LET r == burn(ugdx, sender, amount) IN
  /\ txCount < MaxTxs
  /\ Transact(IF r.ok THEN r.token ELSE ugdx, exchange,
           IF r.ok THEN Mined("burn", sender, amount, r.events)
                   ELSE Reverted("burn", sender, amount, r.why))

\* UGDxToken.pause() and unpause() sent by the owner.
TokenPause(sender) ==
  /\ txCount < MaxTxs
  /\ Transact([ugdx EXCEPT !.paused = ~@], exchange,
           IF sender # "owner" THEN Reverted("pause", sender, 0, "Ownable: caller is not the owner")
           ELSE Mined("pause", sender, 0, <<>>))

\* Exchange.swapETHForUGDx() sent by sender with value wei.
SwapETHForUGDx(sender, value) ==
  LET ugdxAmount == value * EXCHANGE_RATE IN
  /\ txCount < MaxTxs
  /\ Transact(ERC20Transfer(ugdx, "exchange", sender, ugdxAmount),
           [exchange EXCEPT !.eth = @ + value],
           IF exchange.paused THEN Reverted("swapETHForUGDx", sender, value, "Pausable: paused")
           ELSE IF value <= 0 THEN Reverted("swapETHForUGDx", sender, value, "Exchange: Must send ETH")
           ELSE IF ugdx.balances["exchange"] < ugdxAmount
             THEN Reverted("swapETHForUGDx", sender, value, "Exchange: Insufficient liquidity")
           ELSE IF ugdx.paused THEN Reverted("swapETHForUGDx", sender, value, "Pausable: paused")
           ELSE Mined("swapETHForUGDx", sender, value,
                      <<[name |-> "Transfer", from |-> "exchange", to |-> sender,
                         amount |-> ugdxAmount],
                        [name |-> "SwappedETHForUGDx", user |-> sender, ethAmount |-> value,
                         ugdxAmount |-> ugdxAmount]>>))

\* Exchange.requestWithdrawal(amount) sent by sender: ugdx.burn(amount) is
\* an external call made by the Exchange contract, whose msg.sender is the
\* Exchange.
RequestWithdrawal(sender, amount) ==
  LET r == burn(ugdx, "exchange", amount) IN
  /\ txCount < MaxTxs
  /\ Transact(IF r.ok THEN r.token ELSE ugdx, exchange,
           IF exchange.paused THEN Reverted("requestWithdrawal", sender, amount, "Pausable: paused")
           ELSE IF amount <= 0
             THEN Reverted("requestWithdrawal", sender, amount, "Exchange: Amount must be positive")
           ELSE IF ugdx.balances[sender] < amount
             THEN Reverted("requestWithdrawal", sender, amount, "Exchange: Insufficient balance")
           ELSE IF ~r.ok THEN Reverted("requestWithdrawal", sender, amount, r.why)
           ELSE Mined("requestWithdrawal", sender, amount,
                      r.events \o <<[name |-> "WithdrawalRequested", user |-> sender,
                                     ugdxAmount |-> amount]>>))

\* The amounts sent: wei with a swap, token units with the other calls.
WeiSent == {1, 2}
TokenAmounts == {EXCHANGE_RATE, 2 * EXCHANGE_RATE}

NextContracts ==
  \/ \E sender \in {"owner", "user1"}, amount \in TokenAmounts : TokenMint(sender, "user1", amount)
  \/ \E sender \in {"owner", "user1"}, amount \in TokenAmounts : TokenBurn(sender, amount)
  \/ \E sender \in {"owner", "user1"} : TokenPause(sender)
  \/ \E value \in WeiSent : SwapETHForUGDx("user1", value)
  \/ \E amount \in TokenAmounts : RequestWithdrawal("user1", amount)

\* ------------------------------------------------------------ the price oracle
MaxOracleTxs == 4

\* uint256 public constant MIN_PRICE_CHANGE_INTERVAL = 300
MIN_PRICE_CHANGE_INTERVAL == 300

\* The senders of oracle transactions: the owner, a price feed the owner
\* may authorise, and an account that is never authorised.
Updaters == {"feed1", "stranger"}

\* PriceData (blockNumber left out: nothing reads it).
PriceData(rate, timestamp) == [rate |-> rate, timestamp |-> timestamp, isValid |-> TRUE]

\* The oracle after its constructor, deployed at time 1000 with rate 3700.
OracleDeployed ==
  /\ blockTime = 1000
  /\ oracle = [currentPrice |-> PriceData(3700, 1000),
               priceHistory |-> <<PriceData(3700, 1000)>>,
               isAuthorizedUpdater |-> [u \in Updaters |-> FALSE],
               lastUpdateBySource |-> [u \in Updaters |-> 0],
               maxRateChangePercentPerHour |-> 500,
               circuitBreakerThreshold |-> 1000,
               lastHeartbeat |-> 1000,
               useEmergencyFallback |-> FALSE]
  /\ oracleTx = NoTx
  /\ oracleTxs = 0

\* A change measure that counts rises only.
calculateChangePercentRisesOnly(oldRate, newRate) ==
  IF oldRate = 0 THEN 0
  ELSE ((IF newRate > oldRate THEN newRate - oldRate ELSE 0) * 10000) \div oldRate

\* _calculateChangePercent: basis points, rounded down.
calculateChangePercent(oldRate, newRate) ==
  IF oldRate = 0 THEN 0
  ELSE ((IF newRate > oldRate THEN newRate - oldRate ELSE oldRate - newRate) * 10000)
         \div oldRate

\* updatePrice(newRate) sent by msgSender in a block of the given timestamp:
\* the oracle after the call and the call's receipt.
updatePrice(o, msgSender, newRate, timestamp) ==
  LET changePercent == calculateChangePercent(o.currentPrice.rate, newRate)
      timeDiff == timestamp - o.currentPrice.timestamp
      maxChangeAllowed == (o.maxRateChangePercentPerHour * timeDiff) \div 3600
      triggered == [name |-> "CircuitBreakerTriggered", attemptedRate |-> newRate,
                    currentRate |-> o.currentPrice.rate, changePercent |-> changePercent,
                    updater |-> msgSender]
  IN
  IF ~o.isAuthorizedUpdater[msgSender]
    THEN [oracle |-> o,
          tx |-> Reverted("updatePrice", msgSender, newRate, "Oracle: Unauthorized updater")]
  ELSE IF newRate <= 0
    THEN [oracle |-> o, tx |-> Reverted("updatePrice", msgSender, newRate, "Oracle: Invalid rate")]
  ELSE IF timestamp < o.lastUpdateBySource[msgSender] + MIN_PRICE_CHANGE_INTERVAL
    THEN [oracle |-> o,
          tx |-> Reverted("updatePrice", msgSender, newRate, "Oracle: Update too frequent")]
  ELSE IF o.currentPrice.isValid /\ changePercent > o.circuitBreakerThreshold
    THEN [oracle |-> o, tx |-> Mined("updatePrice", msgSender, newRate, <<triggered>>)]
  ELSE IF o.currentPrice.isValid /\ changePercent > maxChangeAllowed
    THEN [oracle |-> o, tx |-> Mined("updatePrice", msgSender, newRate, <<triggered>>)]
  ELSE [oracle |-> [o EXCEPT !.currentPrice = PriceData(newRate, timestamp),
                             !.priceHistory = Append(@, PriceData(newRate, timestamp)),
                             !.lastUpdateBySource[msgSender] = timestamp,
                             !.lastHeartbeat = timestamp,
                             !.useEmergencyFallback = FALSE],
        tx |-> Mined("updatePrice", msgSender, newRate,
                     <<[name |-> "PriceUpdated", oldRate |-> o.currentPrice.rate,
                        newRate |-> newRate, timestamp |-> timestamp,
                        updater |-> msgSender]>>)]

\* An updatePrice transaction is mined, elapsed seconds after the block
\* before it.
UpdatePrice(msgSender, newRate, elapsed) ==
  LET r == updatePrice(oracle, msgSender, newRate, blockTime + elapsed) IN
  /\ oracleTxs < MaxOracleTxs
  /\ oracleTxs' = oracleTxs + 1
  /\ blockTime' = blockTime + elapsed
  /\ oracle' = r.oracle
  /\ oracleTx' = r.tx
  /\ UNCHANGED <<backendVars, contractVars, p2pEventVars, paymentVars>>

\* addOracleSource(updater) sent by the owner.
AddOracleSource(updater, elapsed) ==
  /\ oracleTxs < MaxOracleTxs
  /\ oracleTxs' = oracleTxs + 1
  /\ blockTime' = blockTime + elapsed
  /\ IF oracle.isAuthorizedUpdater[updater]
       THEN /\ oracle' = oracle
            /\ oracleTx' = Reverted("addOracleSource", "owner", 0, "Oracle: Already authorized")
       ELSE /\ oracle' = [oracle EXCEPT !.isAuthorizedUpdater[updater] = TRUE]
            /\ oracleTx' = Mined("addOracleSource", "owner", 0,
                                 <<[name |-> "OracleSourceAdded", source |-> updater]>>)
  /\ UNCHANGED <<backendVars, contractVars, p2pEventVars, paymentVars>>

\* updateCircuitBreakerSettings(newThreshold, newMaxHourlyChange) sent by
\* the owner.
UpdateCircuitBreakerSettings(newThreshold, newMaxHourlyChange, elapsed) ==
  /\ oracleTxs < MaxOracleTxs
  /\ oracleTxs' = oracleTxs + 1
  /\ blockTime' = blockTime + elapsed
  /\ IF newThreshold > 2000 \/ newMaxHourlyChange > 1000
       THEN /\ oracle' = oracle
            /\ oracleTx' = Reverted("updateCircuitBreakerSettings", "owner", newThreshold,
                                    "Oracle: Threshold too high")
       ELSE /\ oracle' = [oracle EXCEPT !.circuitBreakerThreshold = newThreshold,
                                        !.maxRateChangePercentPerHour = newMaxHourlyChange]
            /\ oracleTx' = Mined("updateCircuitBreakerSettings", "owner", newThreshold, <<>>)
  /\ UNCHANGED <<backendVars, contractVars, p2pEventVars, paymentVars>>

\* The rates proposed, the seconds between blocks and the settings tried.
ProposedRates == {3700, 3715, 3716, 3885, 3515, 4070, 4071, 3300}
BlockGaps == {60, 300, 3600, 7200}
BreakerSettings == {<<300, 500>>, <<2000, 1000>>, <<2001, 1000>>}

NextOracle ==
  \/ \E msgSender \in Updaters, newRate \in ProposedRates, elapsed \in BlockGaps :
       UpdatePrice(msgSender, newRate, elapsed)
  \/ \E elapsed \in {60} : AddOracleSource("feed1", elapsed)
  \/ \E s \in BreakerSettings, elapsed \in {60} :
       UpdateCircuitBreakerSettings(s[1], s[2], elapsed)

\* ------------------------------------------------------ the p2p event processor
MaxP2PDeliveries == 3
MaxP2PFaults == 1

P2PDeliveries == 1..MaxP2PDeliveries

\* The events of the UGDX contract handed to the processor; the
\* P2PTransaction row of each was created by the controller that relayed
\* the transfer, the one to mobile money with its payout job.
P2PEvents ==
  { [name |-> "P2PTransferOnChain", transactionHash |-> "0xp1", logIndex |-> 0,
     transferType |-> "onchain", mmJob |-> 0],
    [name |-> "P2PTransferToMM", transactionHash |-> "0xp2", logIndex |-> 0,
     transferType |-> "mobile_money", mmJob |-> 1] }

P2PHashes == {e.transactionHash : e \in P2PEvents}

NoAnalytics == [totalTransactions |-> 0, onChainTransactions |-> 0, mmTransactions |-> 0,
                exists |-> FALSE]

P2PEventsIdle ==
  /\ p2pCalls = [c \in P2PDeliveries |-> [pc |-> "idle"]]
  /\ p2pStore = [processedEvent |-> {},
                 p2PTransaction |-> [h \in P2PHashes |-> "PENDING"],
                 mobileMoneyJob |-> "PENDING",
                 p2PAnalytics |-> NoAnalytics,
                 payouts |-> 0,
                 counted |-> [h \in P2PHashes |-> 0]]
  /\ p2pFaults = 0

\* The start of processP2POnChainEvent / processP2PToMMEvent: the
\* ProcessedEvent row is read, and the P2PTransaction row by txHash.
DeliverP2P(c, e) ==
  /\ p2pCalls[c].pc = "idle"
  /\ p2pCalls' = [p2pCalls EXCEPT ![c] =
                    [pc |-> IF e.transactionHash \in p2pStore.processedEvent
                              THEN "skipped" ELSE "update",
                     event |-> e]]
  /\ UNCHANGED <<p2pStore, p2pFaults>>
  /\ UNCHANGED <<backendVars, contractVars, oracleVars, paymentVars>>

\* What mmService.requestWithdrawal may do: answer success, answer that the
\* withdrawal is pending, or throw.
RailAnswers == {"success", "pending", "throws"}

\* The update of the P2PTransaction row and, for a transfer to mobile
\* money, the call of mmService.requestWithdrawal and the writes after it.
UpdateP2PTransaction(c, answer) ==
  /\ p2pCalls[c].pc = "update"
  /\ LET e == p2pCalls[c].event
         h == e.transactionHash
     IN  p2pStore' =
           IF e.name = "P2PTransferOnChain"
             THEN [p2pStore EXCEPT !.p2PTransaction[h] = "COMPLETED"]
             ELSE [p2pStore EXCEPT
                     !.payouts = @ + 1,
                     !.p2PTransaction[h] =
                        CASE answer = "success" -> "COMPLETED"
                          [] answer = "throws" -> "FAILED"
                          [] OTHER -> @,
                     !.mobileMoneyJob =
                        CASE answer = "success" -> "SUCCESS"
                          [] answer = "throws" -> "FAIL"
                          [] OTHER -> @]
  /\ p2pCalls' = [p2pCalls EXCEPT ![c].pc = "analytics"]
  /\ UNCHANGED p2pFaults
  /\ UNCHANGED <<backendVars, contractVars, oracleVars, paymentVars>>

\* prisma.p2PAnalytics.upsert of updateP2PAnalytics for the type it is
\* given ('ON_CHAIN' or 'TO_MOBILE_MONEY', neither of which is the 'onchain'
\* or 'mobile_money' its branches compare with).
upsertAnalytics(a, type) ==
  IF a.exists
    THEN [a EXCEPT !.totalTransactions = @ + 1,
                   !.onChainTransactions = IF type = "onchain" THEN @ + 1 ELSE @,
                   !.mmTransactions = IF type = "onchain" THEN @ ELSE @ + 1]
    ELSE [totalTransactions |-> 1,
          onChainTransactions |-> IF type = "onchain" THEN 1 ELSE 0,
          mmTransactions |-> IF type = "mobile_money" THEN 1 ELSE 0,
          exists |-> TRUE]

\* updateP2PAnalytics: the upsert, or its failure, which is logged and goes
\* no further.
UpdateP2PAnalytics(c, fails) ==
  /\ p2pCalls[c].pc = "analytics"
  /\ fails => p2pFaults < MaxP2PFaults
  /\ p2pFaults' = IF fails THEN p2pFaults + 1 ELSE p2pFaults
  /\ LET e == p2pCalls[c].event
         type == IF e.name = "P2PTransferOnChain" THEN "ON_CHAIN" ELSE "TO_MOBILE_MONEY"
     IN  p2pStore' = IF fails THEN p2pStore
                     ELSE [p2pStore EXCEPT
                             !.p2PAnalytics = upsertAnalytics(@, type),
                             !.counted[e.transactionHash] = @ + 1]
  /\ p2pCalls' = [p2pCalls EXCEPT ![c].pc = "mark"]
  /\ UNCHANGED <<backendVars, contractVars, oracleVars, paymentVars>>

\* prisma.processedEvent.upsert at the end of the handler, or its failure,
\* which the handler throws on to its caller.
MarkP2PProcessed(c, fails) ==
  /\ p2pCalls[c].pc = "mark"
  /\ fails => p2pFaults < MaxP2PFaults
  /\ p2pFaults' = IF fails THEN p2pFaults + 1 ELSE p2pFaults
  /\ p2pStore' = IF fails THEN p2pStore
                 ELSE [p2pStore EXCEPT
                         !.processedEvent = @ \cup {p2pCalls[c].event.transactionHash}]
  /\ p2pCalls' = [p2pCalls EXCEPT ![c].pc = IF fails THEN "threw" ELSE "done"]
  /\ UNCHANGED <<backendVars, contractVars, oracleVars, paymentVars>>

NextP2PEvents ==
  \/ \E c \in P2PDeliveries, e \in P2PEvents : DeliverP2P(c, e)
  \/ \E c \in P2PDeliveries, answer \in RailAnswers : UpdateP2PTransaction(c, answer)
  \/ \E c \in P2PDeliveries, fails \in BOOLEAN : UpdateP2PAnalytics(c, fails)
  \/ \E c \in P2PDeliveries, fails \in BOOLEAN : MarkP2PProcessed(c, fails)

\* ------------------------------------------------------- the admin confirmation
MaxConfirms == 3
MaxPaymentFaults == 1

Confirms == 1..MaxConfirms

\* The MobileMoneyJob rows: job 1 is a deposit awaiting confirmation, job 2
\* a withdrawal.  The job ids of the requests: these, and an id of no job.
PaymentJobs == {1, 2}
JobIds == PaymentJobs \cup {9}

PaymentsIdle ==
  /\ confirms = [c \in Confirms |-> [pc |-> "idle"]]
  /\ payments = [mobileMoneyJob |-> [j \in PaymentJobs |->
                                       [status |-> "PENDING",
                                        type |-> IF j = 1 THEN "COLLECT" ELSE "WITHDRAW"]],
                 transaction |-> [j \in PaymentJobs |-> "PENDING"],
                 mints |-> [j \in PaymentJobs |-> 0]]
  /\ paymentFaults = 0

\* mmJob.status !== 'PENDING' -> 400
ConfirmGate(mmJob) == mmJob.status = "PENDING"

\* confirmPayment up to its mint: the job is read and checked.
ReadJob(c, jobId) ==
  /\ confirms[c].pc = "idle"
  /\ confirms' = [confirms EXCEPT ![c] =
       IF jobId \notin DOMAIN payments.mobileMoneyJob
         THEN [pc |-> "responded", jobId |-> jobId, status |-> 404]
       ELSE IF ~ConfirmGate(payments.mobileMoneyJob[jobId])
         THEN [pc |-> "responded", jobId |-> jobId, status |-> 400]
       ELSE IF payments.mobileMoneyJob[jobId].type # "COLLECT"
         THEN [pc |-> "responded", jobId |-> jobId, status |-> 400]
       ELSE [pc |-> "mint", jobId |-> jobId, status |-> 0]]
  /\ UNCHANGED <<payments, paymentFaults>>
  /\ UNCHANGED <<backendVars, contractVars, oracleVars, p2pEventVars>>

\* The catch of mintError: the job is marked FAIL, the transaction FAILED.
MintFailed(p, j) ==
  [p EXCEPT !.mobileMoneyJob[j].status = "FAIL", !.transaction[j] = "FAILED"]

\* bridgeContract.adminMintUGDX and tx.wait(): the mint is mined, or the
\* call throws and the catch marks the job failed.
AdminMint(c, mined_) ==
  /\ confirms[c].pc = "mint"
  /\ LET j == confirms[c].jobId IN
     IF mined_
       THEN /\ payments' = [payments EXCEPT !.mints[j] = @ + 1]
            /\ confirms' = [confirms EXCEPT ![c].pc = "record"]
       ELSE /\ payments' = MintFailed(payments, j)
            /\ confirms' = [confirms EXCEPT ![c].pc = "responded", ![c].status = 500]
  /\ UNCHANGED paymentFaults
  /\ UNCHANGED <<backendVars, contractVars, oracleVars, p2pEventVars>>

\* prisma.$transaction after the mint: job SUCCESS and transaction
\* COMPLETED, or, when it fails, the catch of mintError.
RecordConfirmation(c, fails) ==
  /\ confirms[c].pc = "record"
  /\ fails => paymentFaults < MaxPaymentFaults
  /\ paymentFaults' = IF fails THEN paymentFaults + 1 ELSE paymentFaults
  /\ LET j == confirms[c].jobId IN
     payments' = IF fails THEN MintFailed(payments, j)
                 ELSE [payments EXCEPT !.mobileMoneyJob[j].status = "SUCCESS",
                                       !.transaction[j] = "COMPLETED"]
  /\ confirms' = [confirms EXCEPT ![c].pc = "responded",
                                  ![c].status = IF fails THEN 500 ELSE 200]
  /\ UNCHANGED <<backendVars, contractVars, oracleVars, p2pEventVars>>

NextPayments ==
  \/ \E c \in Confirms, jobId \in JobIds : ReadJob(c, jobId)
  \/ \E c \in Confirms, mined_ \in BOOLEAN : AdminMint(c, mined_)
  \/ \E c \in Confirms, fails \in BOOLEAN : RecordConfirmation(c, fails)

ServicesIdle == ContractsDeployed /\ OracleDeployed /\ P2PEventsIdle /\ PaymentsIdle

AccountsIdle == VerifierIdle /\ P2PIdle /\ GasIdle /\ ServicesIdle

\* ------------------------------------------------------------ initial state
\* The process is not started; the store is empty.
EngineStopped ==
  /\ head = 1
  /\ db = [processedEvent |-> {},
           eventProcessingState |-> [c \in {Bridge, Oracle} |-> NoRow],
           transaction |-> <<>>,
           ugdxCredit |-> [u \in Users |-> 0],
           oraclePrice |-> {}]
  /\ mmRequests = [j \in Jobs |-> 0]
  /\ running = FALSE
  /\ isProcessing = FALSE
  /\ live = [p \in LivePayloads |-> "idle"]
  /\ scan = [s \in Scanners |-> IdleScan]
  /\ delivered = {}
  /\ incomplete = 0
  /\ skipped = FALSE
  /\ crashes = 0
  /\ threw = {}
  /\ handlerRuns = [i \in EventIds |-> 0]
  /\ bootRuns = [i \in EventIds |-> 0]
  /\ scanFaults = 0

Init ==
  /\ EngineStopped
  /\ submitted = <<>>
  /\ ListenersDown
  /\ RelayIdle
  /\ AccountsIdle

\* ----------------------------------------------------------------- actions
\* The chain grows.
AdvanceHead ==
  /\ head < Len(Heads)
  /\ head' = head + 1
  /\ UNCHANGED <<db, mmRequests, running, isProcessing, live, scan, delivered,
                 incomplete, skipped, crashes, threw, handlerRuns, bootRuns>>
  /\ UNCHANGED <<scanFaults, notEngine>>

\* initialize(): the checkpoint rows, the listeners, the timer, and the
\* startup replay up to its first await (scanForMissedEvents has set
\* isProcessing and asked for the block number).
Initialize ==
  /\ ~running
  /\ running' = TRUE
  /\ db' = InitializeProcessingState(db)
  /\ isProcessing' = TRUE
  /\ scan' = [scan EXCEPT !["startup"] = [IdleScan EXCEPT !.pc = "head"]]
  /\ bootRuns' = handlerRuns
  /\ UNCHANGED <<head, mmRequests, live, delivered, incomplete, skipped, crashes,
                 threw, handlerRuns>>
  /\ UNCHANGED <<scanFaults, notEngine>>

\* The process dies: every call in flight and the flag are lost, the store
\* keeps what was committed.
Crash ==
  /\ running
  /\ crashes < MaxCrashes
  /\ crashes' = crashes + 1
  /\ running' = FALSE
  /\ isProcessing' = FALSE
  /\ live' = [p \in LivePayloads |-> "idle"]
  /\ scan' = [s \in Scanners |-> IdleScan]
  /\ skipped' = FALSE
  /\ UNCHANGED <<head, db, mmRequests, delivered, incomplete, threw, handlerRuns,
                 bootRuns>>
  /\ UNCHANGED <<scanFaults, notEngine>>

\* The setInterval callback of startBlockScanner fires and starts a scan.
TimerTickScan ==
  /\ running
  /\ TickStartsScan
  /\ scan["timer"].pc = "idle"
  /\ isProcessing' = TRUE
  /\ scan' = [scan EXCEPT !["timer"] = [IdleScan EXCEPT !.pc = "head"]]
  /\ UNCHANGED <<head, db, mmRequests, running, live, delivered, incomplete,
                 skipped, crashes, threw, handlerRuns, bootRuns>>
  /\ UNCHANGED <<scanFaults, notEngine>>

\* The callback fires while a scan is running: nothing is started.
TimerTickSkip ==
  /\ running
  /\ ~TickStartsScan
  /\ skipped' = TRUE
  /\ UNCHANGED <<head, db, mmRequests, running, isProcessing, live, scan,
                 delivered, incomplete, crashes, threw, handlerRuns, bootRuns>>
  /\ UNCHANGED <<scanFaults, notEngine>>

\* One step of a scan cycle leaves its record as r; the finally block of
\* scanForMissedEvents clears the flag when the cycle ends.
ScanMoves(s, r) ==
  /\ scan' = [scan EXCEPT ![s] = r]
  /\ isProcessing' = IF r.pc = "idle" THEN FALSE ELSE isProcessing
  /\ skipped' = IF r.pc = "idle" THEN FALSE ELSE skipped

\* provider.getBlockNumber() answers.
ScanHead(s) ==
  /\ scan[s].pc = "head"
  /\ ScanMoves(s, [scan[s] EXCEPT !.pc = "state", !.currentBlock = Heads[head],
                                  !.ci = 1])
  /\ UNCHANGED <<head, db, mmRequests, running, live, delivered, incomplete,
                 crashes, threw, handlerRuns, bootRuns>>
  /\ UNCHANGED <<scanFaults, notEngine>>

\* The checkpoint of the next contract is read and its range decided.
ScanState(s) ==
  /\ scan[s].pc = "state"
  /\ LET r == scan[s]
         last == db.eventProcessingState[Contracts[r.ci]]
     IN ScanMoves(s, IF NeedsScan(last, r.currentBlock)
                       THEN [r EXCEPT !.pc = "query", !.ti = 1,
                               !.fromBlock = ScanFromBlock(last),
                               !.toBlock = ScanToBlock(r.currentBlock,
                                                       ScanFromBlock(last))]
                       ELSE NextContract(r))
  /\ UNCHANGED <<head, db, mmRequests, running, live, delivered, incomplete,
                 crashes, threw, handlerRuns, bootRuns>>
  /\ UNCHANGED <<scanFaults, notEngine>>

\* scanContractEvents: the range query for one event type answers.
ScanQuery(s) ==
  /\ scan[s].pc = "query"
  /\ LET r == scan[s]
         c == Contracts[r.ci]
         found == QueryFilter(c, ContractEvents(c)[r.ti], r.fromBlock, r.toBlock)
     IN ScanMoves(s, IF found = <<>> THEN AfterType(r)
                     ELSE [r EXCEPT !.pc = "find", !.queue = found])
  /\ UNCHANGED <<head, db, mmRequests, running, live, delivered, incomplete,
                 crashes, threw, handlerRuns, bootRuns>>
  /\ UNCHANGED <<scanFaults, notEngine>>

\* A read of the scan cycle fails and the scan's record becomes r.
ScanFails(s, r) ==
  /\ scanFaults < MaxScanFaults
  /\ scanFaults' = scanFaults + 1
  /\ ScanMoves(s, r)
  /\ UNCHANGED <<head, db, mmRequests, running, live, delivered, incomplete,
                 crashes, threw, handlerRuns, bootRuns>>
  /\ UNCHANGED notEngine

\* provider.getBlockNumber() throws: the catch of scanForMissedEvents ends
\* the cycle.
ScanHeadFails(s) ==
  /\ scan[s].pc = "head"
  /\ ScanFails(s, IdleScan)

\* The read of a contract's checkpoint throws: the same catch, around the
\* loop over the contracts, ends the cycle.
ScanStateFails(s) ==
  /\ scan[s].pc = "state"
  /\ ScanFails(s, IdleScan)

\* A range query throws: the catch of scanContractEvents ends the scan of
\* this contract, and the loop over the contracts moves on.
ScanQueryFails(s) ==
  /\ scan[s].pc = "query"
  /\ ScanFails(s, NextContract(scan[s]))

\* processEvent for the next event found, up to the transaction.
ScanFind(s) ==
  /\ scan[s].pc = "find"
  /\ LET r == scan[s]
     IN ScanMoves(s, IF ProcessEventEntry(db, Head(r.queue)) = "tx"
                       THEN [r EXCEPT !.pc = "tx"]
                       ELSE AfterEvent(r))
  /\ UNCHANGED <<head, db, mmRequests, running, live, delivered, incomplete,
                 crashes, threw, handlerRuns, bootRuns>>
  /\ UNCHANGED <<scanFaults, notEngine>>

\* The effects of one transaction of processEvent for payload p.
RunTransaction(p, fault) ==
  /\ fault # "none" => Cardinality(threw \cup {p.id}) <= MaxFaults
  /\ db' = Transaction(db, p, fault)
  /\ mmRequests' = LET j == PayoutMade(db, p, fault)
                   IN IF j = 0 THEN mmRequests
                      ELSE [mmRequests EXCEPT ![j] = @ + 1]
  /\ threw' = IF Throws(db, p, fault) THEN threw \cup {p.id} ELSE threw
  /\ handlerRuns' = IF Throws(db, p, fault) THEN handlerRuns
                    ELSE [handlerRuns EXCEPT ![p.id] = @ + 1]

\* The transaction of the scanner's processEvent commits or throws.
ScanTx(s, fault) ==
  /\ scan[s].pc = "tx"
  /\ RunTransaction(Head(scan[s].queue), fault)
  /\ ScanMoves(s, AfterEvent(scan[s]))
  /\ UNCHANGED <<head, running, live, delivered, incomplete, crashes, bootRuns>>
  /\ UNCHANGED <<scanFaults, notEngine>>

\* A listener callback runs processEvent for a delivered notification, up to
\* the transaction.
LiveDeliver(p) ==
  /\ running
  /\ p.blockNumber <= Heads[head]
  /\ live[p] = "idle"
  /\ IF p.transactionHash = NoHash
       THEN /\ incomplete < MaxIncomplete
            /\ incomplete' = incomplete + 1
            /\ UNCHANGED delivered
       ELSE /\ p.id \notin delivered
            /\ Cardinality(delivered) < MaxDeliveries
            /\ delivered' = delivered \cup {p.id}
            /\ UNCHANGED incomplete
  /\ live' = [live EXCEPT ![p] = IF ProcessEventEntry(db, p) = "tx"
                                   THEN "tx" ELSE "idle"]
  /\ UNCHANGED <<head, db, mmRequests, running, isProcessing, scan, skipped,
                 crashes, threw, handlerRuns, bootRuns>>
  /\ UNCHANGED <<scanFaults, notEngine>>

\* The transaction of a listener's processEvent commits or throws.
LiveTx(p, fault) ==
  /\ live[p] = "tx"
  /\ RunTransaction(p, fault)
  /\ live' = [live EXCEPT ![p] = "idle"]
  /\ UNCHANGED <<head, running, isProcessing, scan, delivered, incomplete,
                 skipped, crashes, bootRuns>>
  /\ UNCHANGED <<scanFaults, notEngine>>

Next ==
  \/ AdvanceHead
  \/ Initialize
  \/ Crash
  \/ TimerTickScan
  \/ TimerTickSkip
  \/ \E s \in Scanners : ScanHead(s)
  \/ \E s \in Scanners : ScanState(s)
  \/ \E s \in Scanners : ScanQuery(s)
  \/ \E s \in Scanners : ScanHeadFails(s)
  \/ \E s \in Scanners : ScanStateFails(s)
  \/ \E s \in Scanners : ScanQueryFails(s)
  \/ \E s \in Scanners : ScanFind(s)
  \/ \E s \in Scanners, fault \in Faults : ScanTx(s, fault)
  \/ \E p \in LivePayloads : LiveDeliver(p)
  \/ \E p \in LivePayloads, fault \in Faults : LiveTx(p, fault)

Spec == Init /\ [][Next]_vars

\* ------------------------------------------- sequential submissions only
\* No processEvent call is between its read of the row and its transaction.
NoCallInFlight ==
  /\ \A p \in LivePayloads : live[p] = "idle"
  /\ \A s \in Scanners : scan[s].pc # "tx"

\* The same program when every processEvent call ends before the next one
\* begins (the submissions of an event come one after the other).
NextSeq ==
  \/ AdvanceHead
  \/ Initialize
  \/ Crash
  \/ TimerTickScan
  \/ TimerTickSkip
  \/ \E s \in Scanners : ScanHead(s)
  \/ \E s \in Scanners : ScanState(s)
  \/ \E s \in Scanners : ScanQuery(s)
  \/ \E s \in Scanners : ScanHeadFails(s)
  \/ \E s \in Scanners : ScanStateFails(s)
  \/ \E s \in Scanners : ScanQueryFails(s)
  \/ \E s \in Scanners : NoCallInFlight /\ ScanFind(s)
  \/ \E s \in Scanners, fault \in Faults : ScanTx(s, fault)
  \/ \E p \in LivePayloads : NoCallInFlight /\ LiveDeliver(p)
  \/ \E p \in LivePayloads, fault \in Faults : LiveTx(p, fault)

SpecSeq == Init /\ [][NextSeq]_vars

\* ------------------------------------------ no failures, scans keep running
\* The program when nothing crashes and no transaction or read throws.
NextLive ==
  \/ AdvanceHead
  \/ Initialize
  \/ TimerTickScan
  \/ TimerTickSkip
  \/ \E s \in Scanners : ScanHead(s)
  \/ \E s \in Scanners : ScanState(s)
  \/ \E s \in Scanners : ScanQuery(s)
  \/ \E s \in Scanners : ScanFind(s)
  \/ \E s \in Scanners : ScanTx(s, "none")
  \/ \E p \in LivePayloads : LiveDeliver(p)
  \/ \E p \in LivePayloads : LiveTx(p, "none")

\* The chain grows, the process starts, the timer keeps firing, and every
\* pending answer of the chain client and the store arrives.  The live
\* listener owes nothing: it may miss any notification.
SpecLive ==
  /\ Init
  /\ [][NextLive]_vars
  /\ WF_vars(AdvanceHead)
  /\ WF_vars(Initialize)
  /\ WF_vars(TimerTickScan)
  /\ WF_vars(\E s \in Scanners : ScanHead(s))
  /\ WF_vars(\E s \in Scanners : ScanState(s))
  /\ WF_vars(\E s \in Scanners : ScanQuery(s))
  /\ WF_vars(\E s \in Scanners : ScanFind(s))
  /\ WF_vars(\E s \in Scanners : ScanTx(s, "none"))
  /\ WF_vars(\E p \in LivePayloads : LiveTx(p, "none"))

\* ----------------------------------------------- a scan that never completes
\* An await of the scan cycle (the block number, a checkpoint, a range
\* query, a processEvent) never answers: the cycle stays where it is, with
\* isProcessing set.
ScanHangs(s) ==
  /\ scan[s].pc \in {"head", "state", "query", "find", "tx"}
  /\ ScanMoves(s, [scan[s] EXCEPT !.pc = "hung"])
  /\ UNCHANGED <<head, db, mmRequests, running, live, delivered, incomplete,
                 crashes, threw, handlerRuns, bootRuns>>
  /\ UNCHANGED <<scanFaults, notEngine>>

\* The program when nothing crashes or throws, and a scan cycle may hang.
NextStuck ==
  \/ AdvanceHead
  \/ Initialize
  \/ TimerTickScan
  \/ TimerTickSkip
  \/ \E s \in Scanners : ScanHead(s)
  \/ \E s \in Scanners : ScanState(s)
  \/ \E s \in Scanners : ScanQuery(s)
  \/ \E s \in Scanners : ScanFind(s)
  \/ \E s \in Scanners : ScanTx(s, "none")
  \/ \E s \in Scanners : ScanHangs(s)
  \/ \E p \in LivePayloads : LiveDeliver(p)
  \/ \E p \in LivePayloads : LiveTx(p, "none")

\* The timer keeps firing and every answer that is not withheld for ever
\* arrives.
SpecStuck ==
  /\ Init
  /\ [][NextStuck]_vars
  /\ WF_vars(AdvanceHead)
  /\ WF_vars(Initialize)
  /\ WF_vars(TimerTickScan)
  /\ WF_vars(TimerTickSkip)
  /\ WF_vars(\E s \in Scanners : ScanHead(s))
  /\ WF_vars(\E s \in Scanners : ScanState(s))
  /\ WF_vars(\E s \in Scanners : ScanQuery(s))
  /\ WF_vars(\E s \in Scanners : ScanFind(s))
  /\ WF_vars(\E s \in Scanners : ScanTx(s, "none"))
  /\ WF_vars(\E p \in LivePayloads : LiveTx(p, "none"))

\* ------------------------------------------------- the handlers, call by call
\* The notifications handed to processEvent: mints for both users and for a
\* wallet of no user, burns for user 1 and for a wallet of no user, and two
\* price updates.
HandlerInputs ==
  { [id |-> 11, name |-> "USDTSwappedForUGDX", address |-> Bridge, blockNumber |-> 6,
     transactionHash |-> "0xe1", logIndex |-> 0, user |-> "0xW1", amount |-> 5,
     timestamp |-> 60],
    [id |-> 12, name |-> "MobileMoneyMintUGDX", address |-> Bridge, blockNumber |-> 7,
     transactionHash |-> "0xe2", logIndex |-> 0, user |-> "0xW2", amount |-> 7,
     timestamp |-> 70],
    [id |-> 13, name |-> "USDTSwappedForUGDX", address |-> Bridge, blockNumber |-> 8,
     transactionHash |-> "0xe3", logIndex |-> 2, user |-> "0xW9", amount |-> 4,
     timestamp |-> 80],
    [id |-> 14, name |-> "UGDXBurnedForWithdrawal", address |-> Bridge, blockNumber |-> 9,
     transactionHash |-> "0xe4", logIndex |-> 0, user |-> "0xW1", amount |-> 6,
     timestamp |-> 90],
    [id |-> 15, name |-> "UGDXBurnedForWithdrawal", address |-> Bridge, blockNumber |-> 9,
     transactionHash |-> "0xe5", logIndex |-> 1, user |-> "0xW9", amount |-> 6,
     timestamp |-> 90],
    [id |-> 16, name |-> "PriceUpdated", address |-> Oracle, blockNumber |-> 6,
     transactionHash |-> "0xe6", logIndex |-> 0, user |-> "none", amount |-> 3700,
     timestamp |-> 60],
    [id |-> 17, name |-> "PriceUpdated", address |-> Oracle, blockNumber |-> 8,
     transactionHash |-> "0xe7", logIndex |-> 0, user |-> "none", amount |-> 3650,
     timestamp |-> 80] }

InputIds == {p.id : p \in HandlerInputs}

\* A REDEEM or SEND record as the controllers leave it: PENDING, with the
\* payout job it refers to (0: none) and the hash of the relayed burn once
\* that is linked (NoHash before, and for a user who burns on-chain alone).
PendingRecord(uid, type, txHash, mmJob) ==
  [userId |-> uid, type |-> type, ugdxAmount |-> 6, txHash |-> txHash,
   status |-> "PENDING", mmJob |-> mmJob]

\* The Transaction tables the calls start from.
InitialTransactions ==
  { <<>>,
    <<PendingRecord(1, "REDEEM", NoHash, 1)>>,
    <<PendingRecord(1, "SEND", NoHash, 0)>>,
    <<PendingRecord(1, "REDEEM", "0xold", 1)>>,
    <<PendingRecord(1, "REDEEM", "0xold", 1), PendingRecord(1, "REDEEM", NoHash, 2)>>,
    <<PendingRecord(2, "REDEEM", NoHash, 2)>>,
    <<[PendingRecord(1, "REDEEM", NoHash, 1) EXCEPT !.ugdxAmount = 9],
      PendingRecord(1, "REDEEM", NoHash, 2)>> }

\* The process is up, initialize() has run and its startup scan has ended;
\* nothing has been processed yet.
InitHandlers ==
  /\ head = 1
  /\ \E tl \in InitialTransactions :
       db = [processedEvent |-> {},
             eventProcessingState |-> [c \in {Bridge, Oracle} |-> 0],
             transaction |-> tl,
             ugdxCredit |-> [u \in Users |-> 0],
             oraclePrice |-> {}]
  /\ mmRequests = [j \in Jobs |-> 0]
  /\ running = TRUE
  /\ isProcessing = FALSE
  /\ live = [p \in LivePayloads |-> "idle"]
  /\ scan = [s \in Scanners |-> IdleScan]
  /\ delivered = {}
  /\ incomplete = 0
  /\ skipped = FALSE
  /\ crashes = 0
  /\ threw = {}
  /\ handlerRuns = [i \in InputIds |-> 0]
  /\ bootRuns = [i \in InputIds |-> 0]
  /\ scanFaults = 0
  /\ submitted = <<>>
  /\ ListenersDown
  /\ RelayIdle
  /\ AccountsIdle

\* processEvent, from its call to its return, with no other call in between.
ProcessEvent(p, fault) ==
  /\ Len(submitted) < MaxSubmissions
  /\ submitted' = Append(submitted, [id |-> p.id, fault |-> fault])
  /\ IF ProcessEventEntry(db, p) = "tx"
       THEN RunTransaction(p, fault)
       ELSE /\ fault = "none"
            /\ UNCHANGED <<db, mmRequests, threw, handlerRuns>>
  /\ UNCHANGED <<head, running, isProcessing, live, scan, delivered, incomplete,
                 skipped, crashes, bootRuns, scanFaults>>
  /\ UNCHANGED <<listenerVars, relayVars, accountVars>>

NextHandlers == \E p \in HandlerInputs, fault \in Faults : ProcessEvent(p, fault)

SpecHandlers == InitHandlers /\ [][NextHandlers]_vars

\* ------------------------------------------- the listeners and the transport
\* initEventListeners of listeners.js at the start of the process: a new
\* provider, new contracts, a subscription on each event, and the handlers
\* of the socket's close and error.
InitEventListeners ==
  /\ legacyWs.conn = "none"
  /\ legacyWs' = Subscribe(legacyWs)
  /\ UNCHANGED <<hybridWs, engineVars, handlerVars, relayVars, accountVars>>

\* The socket reports an error: the handler logs it.  The close of the
\* socket follows.
LegacyWsError ==
  /\ legacyWs.conn = "open"
  /\ legacyWs.failures < MaxTransportFailures
  /\ legacyWs' = [legacyWs EXCEPT !.conn = "errored", !.failures = @ + 1]
  /\ UNCHANGED <<hybridWs, engineVars, handlerVars, relayVars, accountVars>>

\* The socket closes: the handler calls reconnect(), which removes the
\* listeners of the contracts and sets the 5 s timer.
LegacyWsClose ==
  /\ \/ legacyWs.conn = "errored"
     \/ legacyWs.conn = "open" /\ legacyWs.failures < MaxTransportFailures
  /\ legacyWs' = [RemoveAllListeners(legacyWs) EXCEPT
                    !.conn = "closed",
                    !.timers = @ + 1,
                    !.failures = IF legacyWs.conn = "open" THEN @ + 1 ELSE @]
  /\ UNCHANGED <<hybridWs, engineVars, handlerVars, relayVars, accountVars>>

\* The timer of reconnect() fires: initEventListeners() again.
LegacyReconnectTimer ==
  /\ legacyWs.timers > 0
  /\ legacyWs' = Subscribe([legacyWs EXCEPT !.timers = @ - 1])
  /\ UNCHANGED <<hybridWs, engineVars, handlerVars, relayVars, accountVars>>

\* startWebSocketListeners of the hybrid processor, within initialize(): a
\* subscription on each event over the provider of the configuration.
StartWebSocketListeners ==
  /\ hybridWs.conn = "none"
  /\ hybridWs' = Subscribe(hybridWs)
  /\ UNCHANGED <<legacyWs, engineVars, handlerVars, relayVars, accountVars>>

\* The provider's socket reports an error: the processor has registered no
\* handler for it.
HybridWsError ==
  /\ hybridWs.conn = "open"
  /\ hybridWs.failures < MaxTransportFailures
  /\ hybridWs' = [hybridWs EXCEPT !.conn = "errored", !.failures = @ + 1]
  /\ UNCHANGED <<legacyWs, engineVars, handlerVars, relayVars, accountVars>>

\* The provider's socket closes: no handler either.
HybridWsClose ==
  /\ \/ hybridWs.conn = "errored"
     \/ hybridWs.conn = "open" /\ hybridWs.failures < MaxTransportFailures
  /\ hybridWs' = [hybridWs EXCEPT
                    !.conn = "closed",
                    !.failures = IF hybridWs.conn = "open" THEN @ + 1 ELSE @]
  /\ UNCHANGED <<legacyWs, engineVars, handlerVars, relayVars, accountVars>>

\* A monitored contract emits an event.
Notify(e) ==
  /\ legacyWs.got + legacyWs.missed < MaxNotifications
  /\ legacyWs' = Notified(legacyWs, e)
  /\ hybridWs' = Notified(hybridWs, e)
  /\ UNCHANGED <<engineVars, handlerVars, relayVars, accountVars>>

NextListeners ==
  \/ \E e \in LiveEvents : Notify(e)
  \/ InitEventListeners
  \/ LegacyWsError
  \/ LegacyWsClose
  \/ LegacyReconnectTimer
  \/ StartWebSocketListeners
  \/ HybridWsError
  \/ HybridWsClose

\* The processes start, a socket that reported an error closes, and a timer
\* that is set fires.
SpecListeners ==
  /\ Init
  /\ [][NextListeners]_vars
  /\ WF_vars(InitEventListeners)
  /\ WF_vars(StartWebSocketListeners)
  /\ WF_vars(legacyWs.conn = "errored" /\ LegacyWsClose)
  /\ WF_vars(hybridWs.conn = "errored" /\ HybridWsClose)
  /\ WF_vars(LegacyReconnectTimer)

\* ---------------------------------------------------------- executeMetaTx
\* What the forwarder answers to the static call, to the sending of the
\* transaction, and to the wait for its confirmation.
StaticOutcomes == {"ok"} \cup RevertReasons
SendOutcomes == {"sent", "NONCE_EXPIRED", "NETWORK_ERROR"}
WaitOutcomes == {"confirmed", "CALL_EXCEPTION"}

\* The error an await of executeMetaTx throws for an outcome: a revert of
\* the static call carries the require() message as its reason, a failed
\* send or wait carries none, and a dropped connection carries no message
\* either.
NoValue == "undefined"

ErrorOf(outcome) ==
  IF outcome \in RevertReasons
    THEN [message |-> "execution reverted", code |-> "CALL_EXCEPTION",
          reason |-> outcome]
    ELSE IF outcome = "NETWORK_ERROR"
      THEN [message |-> "", code |-> outcome, reason |-> NoValue]
      ELSE [message |-> "transaction failed", code |-> outcome,
            reason |-> NoValue]

\* A catch block that logs the error and throws it on to the caller.
FailureRethrown(error) == [thrown |-> error]

\* The return of the outer catch block:
\* { success: false, error: error.message || 'Unknown error', code, reason,
\*   stack }.
Failure(error) ==
  [success |-> FALSE,
   error |-> IF error.message = "" THEN "Unknown error" ELSE error.message,
   code |-> error.code,
   reason |-> error.reason,
   stack |-> "stack"]

\* { success: true, txHash: receipt.hash, receipt } for the receipt of the
\* transaction of call c.
Success(c) == [success |-> TRUE, txHash |-> c, receipt |-> [hash |-> c]]

\* An inner catch that logs the revert and does not rethrow it.
DryRunGateSwallowed(outcome) == TRUE

\* The inner try/catch around the static call: the function goes on to
\* send the transaction when the static call returned, and rethrows to the
\* outer catch when it threw.
DryRunGate(outcome) == outcome = "ok"

\* executeMetaTx is called: up to its first await, the static call.
ExecuteMetaTx(c, request, signature) ==
  /\ relay[c].pc = "idle"
  /\ relay' = [relay EXCEPT ![c] = [pc |-> "staticCall", request |-> request,
                                    signature |-> signature, result |-> "none"]]
  /\ UNCHANGED <<dryRuns, chainTxs, engineVars, handlerVars, listenerVars, accountVars>>

\* forwarderContract.execute.staticCall(request, signature) settles.
StaticCallReturns(c, outcome) ==
  /\ relay[c].pc = "staticCall"
  /\ dryRuns' = dryRuns \cup {[call |-> c, request |-> relay[c].request,
                                signature |-> relay[c].signature,
                                outcome |-> outcome]}
  /\ relay' = [relay EXCEPT ![c] =
                 IF DryRunGate(outcome)
                   THEN [@ EXCEPT !.pc = "execute"]
                   ELSE [@ EXCEPT !.pc = "done", !.result = Failure(ErrorOf(outcome))]]
  /\ UNCHANGED <<chainTxs, engineVars, handlerVars, listenerVars, accountVars>>

\* forwarderContract.execute(request, signature) settles: the transaction
\* has been sent, or the sending threw.
ExecuteReturns(c, outcome) ==
  /\ relay[c].pc = "execute"
  /\ IF outcome = "sent"
       THEN /\ chainTxs' = chainTxs \cup {[call |-> c, request |-> relay[c].request,
                                            signature |-> relay[c].signature]}
            /\ relay' = [relay EXCEPT ![c].pc = "wait"]
       ELSE /\ relay' = [relay EXCEPT ![c].pc = "done",
                                      ![c].result = Failure(ErrorOf(outcome))]
            /\ UNCHANGED chainTxs
  /\ UNCHANGED <<dryRuns, engineVars, handlerVars, listenerVars, accountVars>>

\* A return of success for a transaction whose confirmation failed.
WaitResultUnchecked(c, outcome) == Success(c)

\* const receipt = await tx.wait(); return { success: true, ... }: the
\* success for the receipt, or the catch for the throw.
WaitResult(c, outcome) ==
  IF outcome = "confirmed" THEN Success(c) ELSE Failure(ErrorOf(outcome))

\* tx.wait() settles: the receipt, or a throw.
WaitReturns(c, outcome) ==
  /\ relay[c].pc = "wait"
  /\ relay' = [relay EXCEPT ![c].pc = "done",
                            ![c].result = WaitResult(c, outcome)]
  /\ UNCHANGED <<dryRuns, chainTxs, engineVars, handlerVars, listenerVars, accountVars>>

NextRelay ==
  \/ \E c \in RelayCalls, request \in Requests, signature \in Signatures :
       ExecuteMetaTx(c, request, signature)
  \/ \E c \in RelayCalls, outcome \in StaticOutcomes : StaticCallReturns(c, outcome)
  \/ \E c \in RelayCalls, outcome \in SendOutcomes : ExecuteReturns(c, outcome)
  \/ \E c \in RelayCalls, outcome \in WaitOutcomes : WaitReturns(c, outcome)

SpecRelay == Init /\ [][NextRelay]_vars

\* --------------------------------------------------- verifyMetaTxSignature
\* A key signs a request under a domain; verifyMetaTxSignature is then
\* called with a request, a signature, a chain id and a forwarder address
\* that are those, or differ from them in one place.
InitVerify ==
  /\ EngineStopped
  /\ submitted = <<>>
  /\ ListenersDown
  /\ RelayIdle
  /\ \E k \in Keys, from \in {"0xW1", "0xw1", "0xW2"}, cid \in ChainIds,
        kind \in Tampers, genuine \in BOOLEAN :
       LET signed == createMetaTxRequest(from, UGDX, "sendP2POnChain(0xW2, 5)",
                                         0, cid, Forwarder)
       IN  verifyCall =
             [pc |-> "called", key |-> k, signed |-> signed,
              signedChainId |-> cid, signedForwarder |-> Forwarder,
              request |-> TamperedRequest(signed, kind),
              signature |-> IF genuine
                              THEN signTypedData(k, getForwarderDomain(cid, Forwarder),
                                                 getMetaTxTypes, signed)
                              ELSE MalformedSignature,
              chainId |-> IF kind = "chainId"
                            THEN CHOOSE x \in ChainIds : x # cid ELSE cid,
              forwarderAddress |-> IF kind = "forwarder" THEN "0xOther"
                                                          ELSE Forwarder,
              result |-> FALSE]
  /\ P2PIdle
  /\ GasIdle
  /\ ServicesIdle

\* The call returns.
VerifyMetaTxSignature ==
  /\ verifyCall.pc = "called"
  /\ verifyCall' =
       [verifyCall EXCEPT
          !.pc = "returned",
          !.result = verifyMetaTxSignature(verifyCall.request, verifyCall.signature,
                                           verifyCall.chainId,
                                           verifyCall.forwarderAddress)]
  /\ UNCHANGED <<engineVars, handlerVars, listenerVars, relayVars, p2pVars,
                 gasVars, serviceVars>>

NextVerify == VerifyMetaTxSignature

SpecVerify == InitVerify /\ [][NextVerify]_vars

\* ------------------------------------------------ p2p.js and the forwarder
\* provider.getNetwork().
Network == [chainId |-> 80002]

\* ethers.parseEther(amount.toString()): the amount in units of 10^-18.
parseEther(amount) == [mantissa |-> amount, exponent |-> 18]

\* iface.encodeFunctionData(name, args).
encodeFunctionData(name, args) == <<name, args>>

\* createP2POnChainMetaTx; forwarderNonces is forwarderContract.nonces.
createP2POnChainMetaTx(userAddress, recipientAddress, amount, memo, payGasInTokens, forwarderNonces, chainId) ==
  createMetaTxRequest(
    userAddress, UGDX,
    encodeFunctionData("sendP2POnChain",
                       <<recipientAddress, amount, memo, payGasInTokens>>),
    forwarderNonces[ToLowerCase(userAddress)], chainId, Forwarder)

\* createP2PToMMMetaTx.
createP2PToMMMetaTx(userAddress, recipientPhone, amount, memo, payGasInTokens, forwarderNonces, chainId) ==
  createMetaTxRequest(
    userAddress, UGDX,
    encodeFunctionData("sendP2PToMM",
                       <<recipientPhone, amount, memo, payGasInTokens>>),
    forwarderNonces[ToLowerCase(userAddress)], chainId, Forwarder)

\* createBridgeBurnMetaTx.
createBridgeBurnMetaTx(userAddress, amount, forwarderNonces, chainId) ==
  createMetaTxRequest(
    userAddress, Bridge, encodeFunctionData("burnForWithdrawal", <<amount>>),
    forwarderNonces[ToLowerCase(userAddress)], chainId, Forwarder)

\* The forwarder contract: it executes a request when the signature over it
\* recovers to request.from and request.nonce is the signer's current nonce,
\* and reverts otherwise.
ForwarderVerify(n, request, signature) ==
  /\ n[ToLowerCase(request.from)] = request.nonce
  /\ LET signer == verifyTypedData(getForwarderDomain(Network.chainId, Forwarder),
                                   getMetaTxTypes, request, signature)
     IN  signer # Thrown /\ ToLowerCase(signer) = ToLowerCase(request.from)

\* The signatures a request body may carry: none, the signature of the
\* user's key over the request, that of another key, or no signature at all.
SignatureChoices == {"absent", "own", "forged", "malformed"}

ClientSignature(choice, u, request) ==
  LET domain == getForwarderDomain(Network.chainId, Forwarder) IN
  CASE choice = "own" -> signTypedData(KeyOf(u), domain, getMetaTxTypes, request)
    [] choice = "forged" ->
         signTypedData(KeyOf(CHOOSE x \in Users : x # u), domain, getMetaTxTypes,
                       request)
    [] OTHER -> MalformedSignature

\* The cost in UGX of the gas a receipt reports.
GasCosts == {2, 8}

\* deductGasCredit of utils/gas.js, for the user record the handler read:
\* one $transaction of the credit update and the audit row, or, when it
\* fails, neither; the error is logged and goes no further.
deductGasCredit(l, user, costUGX, note, fails) ==
  IF fails
    THEN l
    ELSE [l EXCEPT !.gasCredit[user.id] = Max(user.gasCredit - costUGX, 0),
                   !.creditUpdates[user.id] = @ + 1,
                   !.gasDrip = Append(@, [userId |-> user.id, amount |-> costUGX,
                                          type |-> "USE", note |-> note])]

\* A handler that goes on to its bookkeeping whatever executeMetaTx returned.
ResultGateIgnored(txResult) == TRUE

\* if (!txResult.success) return res.status(400)...
ResultGate(txResult) == txResult.success

TxHashOf(txResult) == IF "txHash" \in DOMAIN txResult THEN txResult.txHash ELSE 0

\* res.status(400).json({ error, details: txResult.error }).
RelayFailureResponse(handler, txResult) ==
  [status |-> 400,
   error |-> IF handler = "sendOnChain" THEN "Meta-transaction execution failed"
                                        ELSE "Transaction failed",
   details |-> txResult.error]

\* sendOnChain and sendToMobile up to their call of executeMetaTx: the user
\* is read, the request is built with the signer's nonce of that moment,
\* and it is signed with the stored key, or the signature of the body is
\* verified (sendOnChain) or taken as it is (sendToMobile); without a
\* signature and a stored key the request is returned for signing.
StartFlow(f, handler, u, choice) ==
  /\ flows[f].pc = "idle"
  /\ LET from == WalletOf(u)
         request ==
           IF handler = "sendOnChain"
             THEN createP2POnChainMetaTx(from, "0xW9", parseEther(5), "", TRUE,
                                         nonces, Network.chainId)
             ELSE createP2PToMMMetaTx(from, "256700", parseEther(5), "", TRUE,
                                      nonces, Network.chainId)
         base == [pc |-> "execute", handler |-> handler, mode |-> "client",
                  user |-> [id |-> u, gasCredit |-> ledger.gasCredit[u]],
                  request |-> request, nonceRead |-> nonces[ToLowerCase(from)],
                  signature |-> ClientSignature(choice, u, request),
                  verified |-> FALSE, response |-> NoResponse]
         phase1 == [base EXCEPT !.pc = "responded",
                                !.signature = MalformedSignature,
                                !.response = [status |-> 200, metaTxRequest |-> request]]
     IN  flows' = [flows EXCEPT ![f] =
           IF choice = "absent"
             THEN IF handler = "sendOnChain" /\ HasSensei(u)
                    THEN [base EXCEPT !.mode = "backend",
                                      !.signature = ClientSignature("own", u, request)]
                    ELSE phase1
             ELSE IF handler = "sendOnChain"
               THEN IF verifyMetaTxSignature(request, base.signature,
                                             Network.chainId, Forwarder)
                      THEN [base EXCEPT !.verified = TRUE]
                      ELSE [base EXCEPT !.pc = "responded",
                                        !.response = [status |-> 400,
                                                      error |-> "Invalid signature"]]
               ELSE base]
  /\ UNCHANGED <<nonces, mined, ledger, storeFaults, verifyVars, serviceVars, gasVars, engineVars,
                 handlerVars, listenerVars, relayVars>>

\* The second call of a client that was handed a request for signing: it
\* signs the request it was handed with its own key and calls the endpoint
\* again with the signature.  The handler builds the request afresh, with
\* the signer's nonce of that moment, and verifies the signature against it
\* (sendOnChain) or takes it as it is (sendToMobile).
SubmitSigned(f) ==
  /\ flows[f].pc = "responded"
  /\ "metaTxRequest" \in DOMAIN flows[f].response
  /\ LET u == flows[f].user.id
         handler == flows[f].handler
         from == WalletOf(u)
         request ==
           IF handler = "sendOnChain"
             THEN createP2POnChainMetaTx(from, "0xW9", parseEther(5), "", TRUE,
                                         nonces, Network.chainId)
             ELSE createP2PToMMMetaTx(from, "256700", parseEther(5), "", TRUE,
                                      nonces, Network.chainId)
         base == [pc |-> "execute", handler |-> handler, mode |-> "client",
                  user |-> [id |-> u, gasCredit |-> ledger.gasCredit[u]],
                  request |-> request, nonceRead |-> nonces[ToLowerCase(from)],
                  signature |-> ClientSignature("own", u, flows[f].response.metaTxRequest),
                  verified |-> FALSE, response |-> NoResponse]
     IN  flows' = [flows EXCEPT ![f] =
           IF handler = "sendOnChain"
             THEN IF verifyMetaTxSignature(request, base.signature,
                                           Network.chainId, Forwarder)
                    THEN [base EXCEPT !.verified = TRUE]
                    ELSE [base EXCEPT !.pc = "responded",
                                      !.response = [status |-> 400,
                                                    error |-> "Invalid signature"]]
             ELSE base]
  /\ UNCHANGED <<nonces, mined, ledger, storeFaults, verifyVars, serviceVars, gasVars, engineVars,
                 handlerVars, listenerVars, relayVars>>

\* The chain mines a forwarder transaction: the forwarder executes the
\* request and advances the signer's nonce, or reverts.
ForwarderMines(c) ==
  /\ mined[c] = "none"
  /\ \E t \in chainTxs :
       /\ t.call = c
       /\ IF ForwarderVerify(nonces, t.request, t.signature)
            THEN /\ nonces' = [nonces EXCEPT ![ToLowerCase(t.request.from)] = @ + 1]
                 /\ mined' = [mined EXCEPT ![c] = "executed"]
            ELSE /\ mined' = [mined EXCEPT ![c] = "reverted"]
                 /\ UNCHANGED nonces
  /\ UNCHANGED <<flows, ledger, storeFaults, verifyVars, serviceVars, gasVars, engineVars, handlerVars,
                 listenerVars, relayVars>>

\* executeMetaTx returned a failure: the handler answers 400.
RelayRejected(f) ==
  /\ flows[f].pc = "execute"
  /\ relay[f].pc = "done"
  /\ ~ResultGate(relay[f].result)
  /\ flows' = [flows EXCEPT ![f].pc = "responded",
                            ![f].response = RelayFailureResponse(flows[f].handler,
                                                                 relay[f].result)]
  /\ UNCHANGED <<nonces, mined, ledger, storeFaults, verifyVars, serviceVars, gasVars, engineVars,
                 handlerVars, listenerVars, relayVars>>

P2PRow(fl, txResult, status, mmJobId) ==
  [senderId |-> fl.user.id, senderAddress |-> fl.request.from,
   transferType |-> IF fl.handler = "sendOnChain" THEN "onchain" ELSE "mobile_money",
   txHash |-> TxHashOf(txResult), status |-> status, mmJobId |-> mmJobId,
   metaTxRequest |-> fl.request, signature |-> fl.signature]

\* executeMetaTx returned a success: the rest of the handler. fault is the
\* store write that fails, if any.
\*   sendOnChain: p2PTransaction.create, deductGasCredit, 200;
\*   sendToMobile: mobileMoneyJob.create, deductGasCredit,
\*                 p2PTransaction.create, 200.
\* A create that throws ends the handler with 500 (the catch of the
\* backend-signed path, next(error) elsewhere).
Bookkeeping(f, fault, costUGX) ==
  /\ flows[f].pc = "execute"
  /\ relay[f].pc = "done"
  /\ ResultGate(relay[f].result)
  /\ fault # "none" => storeFaults < MaxStoreFaults
  /\ fault = "job" => flows[f].handler = "sendToMobile"
  /\ storeFaults' = IF fault = "none" THEN storeFaults ELSE storeFaults + 1
  /\ LET fl == flows[f]
         txResult == relay[f].result
         hash == TxHashOf(txResult)
         error500 == [status |-> 500,
                      error |-> IF fl.mode = "backend" THEN "Backend signing failed"
                                                        ELSE "Internal Server Error"]
         debit(l, note) == deductGasCredit(l, fl.user, costUGX, note, fault = "gas")
     IN  IF fl.handler = "sendOnChain"
           THEN IF fault = "p2p"
                  THEN /\ ledger' = ledger
                       /\ flows' = [flows EXCEPT ![f].pc = "responded",
                                                 ![f].response = error500]
                  ELSE /\ ledger' =
                            debit([ledger EXCEPT !.p2PTransaction =
                                     Append(@, P2PRow(fl, txResult, "COMPLETED", 0))],
                                  "p2p onchain meta-tx")
                       /\ flows' = [flows EXCEPT
                            ![f].pc = "responded",
                            ![f].response =
                               [status |-> 200, transactionHash |-> hash,
                                p2pTransactionId |-> Len(ledger.p2PTransaction) + 1]]
           ELSE IF fault = "job"
                  THEN /\ ledger' = ledger
                       /\ flows' = [flows EXCEPT ![f].pc = "responded",
                                                 ![f].response = error500]
                  ELSE LET mmJobId == Len(ledger.mobileMoneyJob) + 1
                           withJob ==
                             debit([ledger EXCEPT !.mobileMoneyJob =
                                      Append(@, [userId |-> fl.user.id,
                                                 type |-> "DISBURSE",
                                                 status |-> "PENDING"])],
                                   "p2p to-mobile meta-tx")
                       IN  IF fault = "p2p"
                             THEN /\ ledger' = withJob
                                  /\ flows' = [flows EXCEPT ![f].pc = "responded",
                                                            ![f].response = error500]
                             ELSE /\ ledger' =
                                       [withJob EXCEPT !.p2PTransaction =
                                          Append(@, P2PRow(fl, txResult, "PENDING",
                                                           mmJobId))]
                                  /\ flows' = [flows EXCEPT
                                       ![f].pc = "responded",
                                       ![f].response =
                                          [status |-> 200, transactionHash |-> hash,
                                           p2pTransactionId |->
                                             Len(ledger.p2PTransaction) + 1,
                                           mobileMoneyJobId |-> mmJobId]]
  /\ UNCHANGED <<nonces, mined, verifyVars, serviceVars, gasVars, engineVars, handlerVars, listenerVars,
                 relayVars>>

\* tx.wait() of executeMetaTx settles as the chain decided.
WaitOutcomeOf(c) == IF mined[c] = "executed" THEN "confirmed" ELSE "CALL_EXCEPTION"

\* The static call of executeMetaTx settles as the forwarder decides now.
StaticOutcomeOf(c) ==
  IF ForwarderVerify(nonces, relay[c].request, relay[c].signature)
    THEN "ok" ELSE "ERC2771ForwarderInvalidSigner"

NextP2P ==
  \/ \E f \in RelayCalls, handler \in {"sendOnChain", "sendToMobile"}, u \in Users,
        choice \in SignatureChoices : StartFlow(f, handler, u, choice)
  \/ \E f \in RelayCalls : SubmitSigned(f)
  \/ \E f \in RelayCalls :
       /\ flows[f].pc = "execute"
       /\ ExecuteMetaTx(f, flows[f].request, flows[f].signature)
  \/ \E c \in RelayCalls : StaticCallReturns(c, StaticOutcomeOf(c))
  \/ \E c \in RelayCalls, outcome \in SendOutcomes : ExecuteReturns(c, outcome)
  \/ \E c \in RelayCalls : ForwarderMines(c)
  \/ \E c \in RelayCalls : mined[c] # "none" /\ WaitReturns(c, WaitOutcomeOf(c))
  \/ \E f \in RelayCalls : RelayRejected(f)
  \/ \E f \in RelayCalls, fault \in {"none", "p2p", "job", "gas"}, costUGX \in GasCosts :
       Bookkeeping(f, fault, costUGX)

SpecP2P == Init /\ [][NextP2P]_vars

\* --------------------------------------------------------- gas accounting
\* A handler reads the user record it will later hand to deductGasCredit:
\* that of utils/gas.js ("utils") or that of txController.js ("controller").
ReadUser(d, impl, u) ==
  /\ debits[d].pc = "idle"
  /\ debits' = [debits EXCEPT ![d] =
                  [pc |-> "read", impl |-> impl,
                   user |-> [id |-> u, gasCredit |-> ledger.gasCredit[u]],
                   costUGX |-> 0]]
  /\ UNCHANGED <<nonces, mined, flows, ledger, storeFaults, verifyVars, serviceVars, engineVars,
                 handlerVars, listenerVars, relayVars>>

\* deductGasCredit of utils/gas.js, whole.
DeductGasCredit(d, costUGX, fails) ==
  /\ debits[d].pc = "read"
  /\ debits[d].impl = "utils"
  /\ fails => storeFaults < MaxStoreFaults
  /\ storeFaults' = IF fails THEN storeFaults + 1 ELSE storeFaults
  /\ ledger' = deductGasCredit(ledger, debits[d].user, costUGX, "meta-tx", fails)
  /\ debits' = [debits EXCEPT ![d].pc = "done", ![d].costUGX = costUGX]
  /\ UNCHANGED <<nonces, mined, flows, verifyVars, serviceVars, engineVars, handlerVars,
                 listenerVars, relayVars>>

\* deductGasCredit of txController.js up to its first write:
\* newCredit = Math.max(parseFloat(user.gasCredit) - costUGX, 0) and
\* prisma.user.update; a failure throws to redeemUGDX.
ControllerUpdateCredit(d, costUGX, fails) ==
  /\ debits[d].pc = "read"
  /\ debits[d].impl = "controller"
  /\ fails => storeFaults < MaxStoreFaults
  /\ storeFaults' = IF fails THEN storeFaults + 1 ELSE storeFaults
  /\ LET user == debits[d].user IN
     ledger' = IF fails
                 THEN ledger
                 ELSE [ledger EXCEPT
                         !.gasCredit[user.id] = Max(user.gasCredit - costUGX, 0),
                         !.creditUpdates[user.id] = @ + 1]
  /\ debits' = [debits EXCEPT ![d].pc = IF fails THEN "threw" ELSE "updated",
                              ![d].costUGX = costUGX]
  /\ UNCHANGED <<nonces, mined, flows, verifyVars, serviceVars, engineVars, handlerVars,
                 listenerVars, relayVars>>

\* Its second write, prisma.gasDrip.create; a failure throws to redeemUGDX.
ControllerCreateDrip(d, fails) ==
  /\ debits[d].pc = "updated"
  /\ fails => storeFaults < MaxStoreFaults
  /\ storeFaults' = IF fails THEN storeFaults + 1 ELSE storeFaults
  /\ ledger' = IF fails
                 THEN ledger
                 ELSE [ledger EXCEPT !.gasDrip =
                         Append(@, [userId |-> debits[d].user.id,
                                    amount |-> debits[d].costUGX,
                                    type |-> "USE", note |-> "Redeem tx"])]
  /\ debits' = [debits EXCEPT ![d].pc = IF fails THEN "threw" ELSE "done"]
  /\ UNCHANGED <<nonces, mined, flows, verifyVars, serviceVars, engineVars, handlerVars,
                 listenerVars, relayVars>>

NextGas ==
  \/ \E d \in Debits, impl \in {"utils", "controller"}, u \in Users : ReadUser(d, impl, u)
  \/ \E d \in Debits, costUGX \in GasCosts, fails \in BOOLEAN :
       DeductGasCredit(d, costUGX, fails)
  \/ \E d \in Debits, costUGX \in GasCosts, fails \in BOOLEAN :
       ControllerUpdateCredit(d, costUGX, fails)
  \/ \E d \in Debits, fails \in BOOLEAN : ControllerCreateDrip(d, fails)

SpecGas == Init /\ [][NextGas]_vars

\* ------------------------------------------------ the other specifications
SpecContracts == Init /\ [][NextContracts]_vars

SpecOracle == Init /\ [][NextOracle]_vars

SpecP2PEvents == Init /\ [][NextP2PEvents]_vars

SpecPayments == Init /\ [][NextPayments]_vars

\* ------------------------------------------------------------------ claims
\* The event has a ProcessedEvent row marked processed.
HasProcessedRow(e) ==
  \E r \in db.processedEvent : r.key = Key(e) /\ r.processed

\* The MINT records carrying the event's transaction hash.
MintRecords(e) ==
  Cardinality({i \in 1..Len(db.transaction) :
                 /\ db.transaction[i].type = "MINT"
                 /\ db.transaction[i].txHash = e.transactionHash})

IsMint(e) == e.name \in {"USDTSwappedForUGDX", "MobileMoneyMintUGDX"}

\* The credit the mint events processed so far add up to.
RECURSIVE CreditDue(_)
CreditDue(i) ==
  IF i = 0 THEN 0
  ELSE CreditDue(i - 1) +
       (IF IsMint(ChainLog[i]) /\ HasProcessedRow(ChainLog[i])
          THEN ChainLog[i].amount ELSE 0)

\* A processEvent call for the event is in its transaction.
InTransaction(e) ==
  \/ e \in LivePayloads /\ live[e] = "tx"
  \/ \E s \in Scanners : scan[s].pc = "tx" /\ Head(scan[s].queue) = e

\* The position of the event's type among its contract's event types.
TypeIndex(e) ==
  CHOOSE k \in 1..Len(ContractEvents(e.address)) :
    ContractEvents(e.address)[k] = e.name

\* The scan cycle s, in progress, has submitted the event and its
\* processEvent has returned.
ScanPassedBy(s, e) ==
  LET r == scan[s] IN
  /\ r.pc \in {"query", "find", "tx"}
  /\ Contracts[r.ci] = e.address
  /\ r.fromBlock <= e.blockNumber /\ e.blockNumber <= r.toBlock
  /\ \/ TypeIndex(e) < r.ti
     \/ /\ TypeIndex(e) = r.ti
        /\ r.pc \in {"find", "tx"}
        /\ \A k \in 1..Len(r.queue) : r.queue[k] # e

ScanPassed(e) == \E s \in Scanners : ScanPassedBy(s, e)

\* C1 (under SpecSeq, the submissions coming one after the other): every
\* event has at most one ProcessedEvent row; its handler has run (and
\* committed) once if that row is marked processed and not at all otherwise,
\* it has left as many MINT records, and the credit is the sum of the
\* processed mints; and no submission of an event already marked processed
\* reaches the transaction, so that it changes nothing.
C1_Idempotent ==
  /\ \A e \in Events :
       /\ Cardinality({r \in db.processedEvent : r.key = Key(e)}) <= 1
       /\ handlerRuns[e.id] = IF HasProcessedRow(e) THEN 1 ELSE 0
       /\ IsMint(e) => MintRecords(e) = handlerRuns[e.id]
       /\ HasProcessedRow(e) => ~InTransaction(e)
  /\ db.ugdxCredit[1] = CreditDue(Len(ChainLog))

\* C1's case: an event has been submitted by both paths, one after the
\* other, no transaction threw, and its handler ran once.
C1_Witness ==
  \E e \in Events :
    /\ e.id \in delivered /\ live[e] = "idle"
    /\ ScanPassed(e)
    /\ threw = {}
    /\ handlerRuns[e.id] = 1

\* C2 (as claimed): whatever the interleaving of the live listener's and
\* the scanner's processEvent for one event, its handler runs once: one
\* committed execution, one MINT record, the credit of one mint.
C2_ExactlyOneAccepted ==
  /\ \A e \in Events :
       /\ handlerRuns[e.id] <= 1
       /\ IsMint(e) => MintRecords(e) <= 1
  /\ db.ugdxCredit[1] = CreditDue(Len(ChainLog))

\* C3 (as claimed): no step lowers the lastProcessedBlock of a contract.
C3_CheckpointMonotonic ==
  [][\A c \in {Bridge, Oracle} :
       db.eventProcessingState[c] # NoRow =>
         db'.eventProcessingState[c] >= db.eventProcessingState[c]]_vars

\* C4: a step in which a transaction throws for an event that had not thrown
\* before leaves the store as it was (no row, no record, no credit, no
\* checkpoint move); in every state a ProcessedEvent row is marked processed
\* and belongs to an event whose handler has committed, and an event whose
\* handler has not committed has no row and no MINT record; and a submission
\* of an event that has no processed row goes on to the transaction.
C4_AtomicAccept ==
  [][/\ threw' # threw => db' = db /\ handlerRuns' = handlerRuns
     /\ \A e \in Events :
          /\ \A r \in db'.processedEvent :
               r.key = Key(e) => r.processed /\ handlerRuns'[e.id] >= 1
          /\ handlerRuns'[e.id] = 0 =>
               /\ \A r \in db'.processedEvent : r.key # Key(e)
               /\ IsMint(e) => MintRecords(e)' = 0
     /\ \A e \in Events :
          (e.id \in delivered' \ delivered /\ ~HasProcessedRow(e)) =>
            live'[e] = "tx"
     /\ \A s \in Scanners :
          (/\ scan[s].pc = "find" /\ scan'[s] # scan[s] /\ running'
           /\ ~HasProcessedRow(Head(scan[s].queue))) => scan'[s].pc = "tx"
    ]_vars

\* C4's case: with the scanner as the only path, the transaction of an
\* event threw, and a later submission of it was accepted and handled.
C4_Witness ==
  \E e \in Events :
    /\ delivered = {}
    /\ e.id \in threw
    /\ HasProcessedRow(e)
    /\ handlerRuns[e.id] = 1

\* C5 (as claimed): every event at or below its contract's checkpoint has a
\* ProcessedEvent row marked processed.
C5_CheckpointCoversEvents ==
  \A e \in Events :
    (/\ db.eventProcessingState[e.address] # NoRow
     /\ e.blockNumber <= db.eventProcessingState[e.address])
      => HasProcessedRow(e)

\* A scan cycle is submitting the event to processEvent.
ScanSubmits(e) ==
  \E s \in Scanners : scan[s].pc \in {"find", "tx"} /\ Head(scan[s].queue) = e

\* C6 (as claimed, under SpecLive: scans keep being triggered, nothing
\* fails): every event on the chain that the live listener does not deliver
\* is eventually submitted to processEvent by a scan cycle.
C6_ScannerCompleteness ==
  \A e \in Events :
    (e.blockNumber <= Heads[head]) ~> (e.id \in delivered \/ ScanSubmits(e))

\* C7: initialize() leaves the existing checkpoint rows (and the rest of the
\* store) as they are; the startup scan starts each contract at the
\* committed lastProcessedBlock + 1; and the handler of an event that had
\* run before the restart does not run again.
C7_ReplayResumption ==
  [][/\ (~running /\ running') =>
          /\ \A c \in {Bridge, Oracle} :
               db.eventProcessingState[c] # NoRow =>
                 db'.eventProcessingState[c] = db.eventProcessingState[c]
          /\ db'.processedEvent = db.processedEvent
          /\ db'.transaction = db.transaction
          /\ db'.ugdxCredit = db.ugdxCredit
     /\ (scan["startup"].pc = "state" /\ scan'["startup"].pc = "query") =>
          scan'["startup"].fromBlock =
            db.eventProcessingState[Contracts[scan["startup"].ci]] + 1
     /\ \A i \in EventIds : bootRuns'[i] > 0 => handlerRuns'[i] = bootRuns'[i]
    ]_vars

\* C7's case: the only crash killed a scan between two events of its queue
\* (event 1 handled, event 3 not, nothing delivered live, nothing thrown),
\* and the startup scan after the restart begins above event 1.
C7_Witness ==
  /\ crashes = 1 /\ running
  /\ delivered = {} /\ threw = {}
  /\ bootRuns[1] = 1 /\ handlerRuns[3] = 0
  /\ scan["startup"].pc = "query"
  /\ scan["startup"].fromBlock = 3

\* C8: a notification without a transaction hash changes nothing: no row,
\* no handler run, no checkpoint, balance or record change, no call left in
\* flight.
C8_MissingHashDiscarded ==
  [][incomplete' # incomplete =>
       UNCHANGED <<db, mmRequests, live, scan, isProcessing, handlerRuns, threw>>
    ]_vars

\* C8's case: such a notification has been delivered.
C8_Witness == incomplete > 0

C10_NoOverlappingScans ==
  [][/\ ~(scan'["startup"].pc # "idle" /\ scan'["timer"].pc # "idle")
     /\ isProcessing' = (\E s \in Scanners : scan'[s].pc # "idle")
     /\ (skipped' /\ ~skipped) => UNCHANGED <<scan, isProcessing, db>>
    ]_vars

\* C10's case: a timer tick fired, and was skipped, while the startup scan
\* was in progress.
C10_Witness ==
  /\ skipped
  /\ scan["startup"].pc # "idle"
  /\ scan["timer"].pc = "idle"

\* C11 (as claimed): when a read of the scan of one contract fails (its
\* checkpoint, or a range query for one of its event types) and another
\* contract follows it, the cycle goes on to scan that contract.
C11_FailureIsolation ==
  [][\A s \in Scanners :
       (/\ scanFaults' # scanFaults
        /\ scan[s].pc \in {"state", "query"}
        /\ scan[s].ci < Len(Contracts))
         => /\ scan'[s].pc = "state"
            /\ scan'[s].ci = scan[s].ci + 1
    ]_vars

\* C12 (as claimed): the event a scan cycle is submitting to processEvent
\* has a block number at least that of every event of the same contract the
\* cycle has submitted before it.
C12_ScanAscending ==
  \A s \in Scanners :
    scan[s].pc \in {"find", "tx"} =>
      \A f \in Events :
        (ScanPassedBy(s, f) /\ f.address = Head(scan[s].queue).address)
          => f.blockNumber <= Head(scan[s].queue).blockNumber

\* C14 (as claimed, under SpecStuck: the timer keeps firing): whenever a
\* scan cycle is stuck, a new scan cycle is eventually started.
C14_StuckScanRecovery ==
  (\E s \in Scanners : scan[s].pc = "hung")
    ~> (\E s \in Scanners : scan[s].pc \notin {"idle", "hung"})

\* The step is a processEvent call for p, run alone.
Submits(p) ==
  /\ Len(submitted') = Len(submitted) + 1
  /\ submitted'[Len(submitted')].id = p.id

\* The step is such a call, for an event not marked processed, and nothing
\* fails in its transaction.
Commits(p) ==
  /\ Submits(p)
  /\ submitted'[Len(submitted')].fault = "none"
  /\ ~HasProcessedRow(p)

\* A swap, deposit or burn notification whose wallet belongs to no user.
Unresolvable(p) ==
  /\ p.name \in {"USDTSwappedForUGDX", "MobileMoneyMintUGDX",
                 "UGDXBurnedForWithdrawal"}
  /\ UserOfWallet(p.user) = 0

Input(i) == CHOOSE p \in HandlerInputs : p.id = i

\* C16: a processEvent call that accepts a swap or deposit event of a known
\* user's wallet appends one record to the transaction table, a COMPLETED
\* MINT of that user with the event's transaction hash and amount, the only
\* MINT record with that hash; raises that user's ugdxCredit by the amount;
\* and leaves every other record and every other user's balance as it was.
C16_MintEffect ==
  [][\A p \in HandlerInputs :
       (IsMint(p) /\ UserOfWallet(p.user) # 0 /\ Commits(p)) =>
         LET uid == UserOfWallet(p.user)
             n == Len(db.transaction)
         IN /\ Len(db'.transaction) = n + 1
            /\ SubSeq(db'.transaction, 1, n) = db.transaction
            /\ db'.transaction[n + 1].userId = uid
            /\ db'.transaction[n + 1].type = "MINT"
            /\ db'.transaction[n + 1].status = "COMPLETED"
            /\ db'.transaction[n + 1].txHash = p.transactionHash
            /\ db'.transaction[n + 1].ugdxAmount = p.amount
            /\ MintRecords(p)' = 1
            /\ db'.ugdxCredit[uid] = db.ugdxCredit[uid] + p.amount
            /\ \A u \in Users \ {uid} : db'.ugdxCredit[u] = db.ugdxCredit[u]
    ]_vars

\* C16's case: the deposit of user 2 has been handled, in a store that held a
\* record of user 1: user 2 is credited 7, user 1 nothing.
C16_Witness ==
  /\ handlerRuns[12] = 1
  /\ MintRecords(Input(12)) = 1
  /\ db.ugdxCredit[2] = 7
  /\ db.ugdxCredit[1] = 0
  /\ Len(db.transaction) = 2

\* The pending withdrawal/send records of a user that carry no transaction
\* hash.
PendingNoHash(d, uid) ==
  {i \in 1..Len(d.transaction) :
     /\ d.transaction[i].userId = uid
     /\ d.transaction[i].status = "PENDING"
     /\ d.transaction[i].type \in {"REDEEM", "SEND"}
     /\ d.transaction[i].txHash = NoHash}

\* C17 (as claimed): when a processEvent call accepts a burn for the wallet
\* of a user who has a pending withdrawal/send record with no transaction
\* hash, such a record is afterwards COMPLETED with the event's transaction
\* hash; and a call for a burn already marked processed changes nothing.
C17_BurnCompletesPending ==
  [][\A p \in HandlerInputs :
       (p.name = "UGDXBurnedForWithdrawal" /\ Submits(p)) =>
         /\ (Commits(p) /\ PendingNoHash(db, UserOfWallet(p.user)) # {}) =>
              \E i \in PendingNoHash(db, UserOfWallet(p.user)) :
                /\ db'.transaction[i].status = "COMPLETED"
                /\ db'.transaction[i].txHash = p.transactionHash
         /\ HasProcessedRow(p) => UNCHANGED <<db, mmRequests, handlerRuns>>
    ]_vars

\* C18 (as claimed): no step changes a withdrawal/send record that carries a
\* transaction hash, or asks the mobile-money rail to pay its job.
C18_BurnSkipsConfirmed ==
  [][\A i \in 1..Len(db.transaction) :
       (/\ db.transaction[i].type \in {"REDEEM", "SEND"}
        /\ db.transaction[i].txHash # NoHash) =>
         /\ db'.transaction[i] = db.transaction[i]
         /\ db.transaction[i].mmJob # 0 =>
              mmRequests'[db.transaction[i].mmJob] =
                mmRequests[db.transaction[i].mmJob]
    ]_vars

\* C19: a processEvent call that accepts a price-updated event leaves the
\* cached exchange rate as the single row of id 1, with the event's new rate
\* and the event's timestamp (seconds) as a date (milliseconds), and changes
\* no balance, no transaction record and requests no payout.
C19_PriceCacheOnly ==
  [][\A p \in HandlerInputs :
       (p.name = "PriceUpdated" /\ Commits(p)) =>
         /\ db'.oraclePrice = {[id |-> 1, currentRate |-> p.amount,
                                lastUpdated |-> p.timestamp * 1000]}
         /\ db'.ugdxCredit = db.ugdxCredit
         /\ db'.transaction = db.transaction
         /\ mmRequests' = mmRequests
    ]_vars

\* C19's case: the two price updates have been handled one after the other,
\* the second over the row the first created.
C19_Witness ==
  /\ Len(submitted) = 2
  /\ submitted[1].id = 16 /\ submitted[2].id = 17
  /\ handlerRuns[16] = 1 /\ handlerRuns[17] = 1
  /\ \E r \in db.oraclePrice : r.currentRate = 3650

\* C13 (as claimed, under SpecListeners): a listener never holds two
\* subscriptions on one event, and whenever its transport has reported an
\* error or closed, it is eventually Subscribed again.
C13_ListenerReconnects ==
  /\ [](\A e \in LiveEvents : legacyWs.subs[e] <= 1 /\ hybridWs.subs[e] <= 1)
  /\ (legacyWs.conn \in {"errored", "closed"}) ~> Subscribed(legacyWs)
  /\ (hybridWs.conn \in {"errored", "closed"}) ~> Subscribed(hybridWs)

\* C20: every forwarder transaction sent by an executeMetaTx call carries
\* the request and signature of a static call of the same executeMetaTx call
\* that returned without reverting; a call that is sending or awaiting its
\* transaction has such a static call behind it; and a call whose static
\* call reverted has sent no transaction and has returned a failure carrying
\* the revert reason.
C20_DryRunGate ==
  /\ \A t \in chainTxs :
       [call |-> t.call, request |-> t.request, signature |-> t.signature,
        outcome |-> "ok"] \in dryRuns
  /\ \A c \in RelayCalls :
       relay[c].pc \in {"execute", "wait"} =>
         [call |-> c, request |-> relay[c].request,
          signature |-> relay[c].signature, outcome |-> "ok"] \in dryRuns
  /\ \A d \in dryRuns :
       d.outcome # "ok" =>
         /\ \A t \in chainTxs : t.call # d.call
         /\ relay[d.call].pc = "done"
         /\ relay[d.call].result.success = FALSE
         /\ relay[d.call].result.reason = d.outcome

\* C20's case: one call's static call reverted and the call has returned
\* the failure; another call's static call passed and its transaction was
\* sent and confirmed.
C20_Witness ==
  \E c1, c2 \in RelayCalls :
    /\ \E d \in dryRuns : d.call = c1 /\ d.outcome \in RevertReasons
    /\ relay[c1].pc = "done"
    /\ \E t \in chainTxs : t.call = c2
    /\ relay[c2].pc = "done" /\ relay[c2].result.success

\* The shapes executeMetaTx may hand to its caller.
IsSuccessResult(r) ==
  /\ DOMAIN r = {"success", "txHash", "receipt"}
  /\ r.success = TRUE
  /\ r.txHash = r.receipt.hash

IsFailureResult(r) ==
  /\ {"success", "error", "code", "reason"} \subseteq DOMAIN r
  /\ r.success = FALSE
  /\ r.error # ""

\* C21: every executeMetaTx call that has returned, whatever the static
\* call, the sending and the wait for confirmation answered, has handed its
\* caller either { success: true, txHash, receipt } or a failure
\* { success: false, error, code, reason }; it has thrown nothing, and a
\* success is returned only for a confirmed transaction.
C21_ResultNormalised ==
  \A c \in RelayCalls :
    relay[c].pc = "done" =>
      /\ IsSuccessResult(relay[c].result) \/ IsFailureResult(relay[c].result)
      /\ IsSuccessResult(relay[c].result) => \E t \in chainTxs : t.call = c

\* C21's case: one call failed in the sending of its transaction on a
\* dropped connection (an error with no message), and another failed in the
\* wait for its confirmation; both have returned.
C21_Witness ==
  \E c1, c2 \in RelayCalls :
    /\ relay[c1].pc = "done" /\ relay[c2].pc = "done"
    /\ relay[c1].result.success = FALSE /\ relay[c2].result.success = FALSE
    /\ relay[c1].result.code = "NETWORK_ERROR"
    /\ relay[c1].result.error = "Unknown error"
    /\ \E t \in chainTxs : t.call = c2

\* The fields of a ForwardRequest that are signed.
SignedFields == {"from", "to", "value", "gas", "nonce", "data", "validUntil"}

\* Two values of a field are the same: addresses are compared as addresses.
SameField(f, a, b) ==
  IF f \in {"from", "to"} THEN ToLowerCase(a) = ToLowerCase(b) ELSE a = b

\* The presented request and domain are the ones that were signed.
AsSigned(v) ==
  /\ \A f \in SignedFields : SameField(f, v.request[f], v.signed[f])
  /\ v.chainId = v.signedChainId
  /\ ToLowerCase(v.forwarderAddress) = ToLowerCase(v.signedForwarder)

\* C23: verifyMetaTxSignature returns (it does not throw), and for the
\* signature a key K made over a request under the forwarder domain: when
\* the presented request and domain are the signed ones it returns true
\* exactly when request.from is address(K), whatever the case either is
\* written in; when a signed field (from, to, value, gas, nonce, data,
\* validUntil) or the domain (chain id, forwarder address) differs from what
\* was signed it returns false; and for a malformed signature it returns
\* false.
C23_SignatureCorrectness ==
  verifyCall.pc = "returned" =>
    LET v == verifyCall IN
    IF v.signature = MalformedSignature
      THEN v.result = FALSE
      ELSE IF AsSigned(v)
        THEN v.result = (ToLowerCase(v.request.from) = ToLowerCase(AddressOf(v.key)))
        ELSE v.result = FALSE

\* C23's case: a request signed by the key of its from address and presented
\* with that address in the other case has been accepted.
C23_Witness ==
  /\ verifyCall.pc = "returned"
  /\ verifyCall.signature # MalformedSignature
  /\ verifyCall.request.from # verifyCall.signed.from
  /\ AsSigned(verifyCall)
  /\ verifyCall.result = TRUE

\* C22: every request and signature a p2p handler hands to executeMetaTx,
\* and so every signature that reaches the forwarder (its static call or a
\* sent transaction), is one verifyMetaTxSignature accepts for that request:
\* the signature recovers to the request's from address.
C22_VerifyBeforeExecute ==
  /\ \A c \in RelayCalls :
       relay[c].pc # "idle" =>
         verifyMetaTxSignature(relay[c].request, relay[c].signature,
                               Network.chainId, Forwarder)
  /\ \A d \in dryRuns :
       verifyMetaTxSignature(d.request, d.signature, Network.chainId, Forwarder)
  /\ \A t \in chainTxs :
       verifyMetaTxSignature(t.request, t.signature, Network.chainId, Forwarder)

\* The call a handler's request is to carry.
EncodedCall(handler) ==
  IF handler = "sendOnChain"
    THEN encodeFunctionData("sendP2POnChain", <<"0xW9", parseEther(5), "", TRUE>>)
    ELSE encodeFunctionData("sendP2PToMM", <<"256700", parseEther(5), "", TRUE>>)

\* All of the claim but the expiry.
BuiltAsClaimed(f) ==
  /\ flows'[f].request.value = 0
  /\ flows'[f].request.gas = 300000
  /\ flows'[f].request.nonce = nonces[ToLowerCase(flows'[f].request.from)]
  /\ flows'[f].request.data = EncodedCall(flows'[f].handler)
  /\ flows'[f].request.to = UGDX

\* C24: every request a handler builds has value 0, the fixed gas budget of
\* 300000, the nonce the forwarder holds for the signer at that moment, the
\* encoded call as its data, and an expiry: a validUntil other than 0, the
\* value that stands for "never expires".
C24_RequestConstruction ==
  [][\A f \in RelayCalls :
       flows[f].pc = "idle" /\ flows'[f].pc # "idle" =>
         /\ BuiltAsClaimed(f)
         /\ flows'[f].request.validUntil # 0]_vars

\* The signer of a call's request, and the calls of a signer the chain
\* executed.
SignerOf(c) == ToLowerCase(relay[c].request.from)
ExecutedFor(a) == {c \in RelayCalls : mined[c] = "executed" /\ SignerOf(c) = a}

\* C25: a request whose nonce is not the forwarder's nonce for its signer
\* when it is submitted is rejected: its executeMetaTx call returns a
\* structured failure, whether the static call or the mined transaction
\* found it stale, and it changes nothing on-chain (the signer's nonce
\* counts exactly the executed requests); a call returns a success only for
\* an executed request; and of two requests built for one signer with the
\* same nonce at most one is executed.
C25_StaleNonce ==
  /\ \A c \in RelayCalls :
       relay[c].pc = "done" =>
         IF mined[c] = "executed"
           THEN IsSuccessResult(relay[c].result)
           ELSE IsFailureResult(relay[c].result)
  /\ \A a \in DOMAIN nonces : nonces[a] = Cardinality(ExecutedFor(a))
  /\ \A c1, c2 \in RelayCalls :
       /\ c1 # c2
       /\ relay[c1].pc # "idle" /\ relay[c2].pc # "idle"
       /\ SignerOf(c1) = SignerOf(c2)
       /\ relay[c1].request.nonce = relay[c2].request.nonce
       => ~(mined[c1] = "executed" /\ mined[c2] = "executed")

\* C25's case: two requests were built for one signer with the same nonce,
\* both passed their static call and were sent; the chain executed one and
\* reverted the other, and both calls have returned.
C25_Witness ==
  \E c1, c2 \in RelayCalls :
    /\ c1 # c2
    /\ relay[c1].pc = "done" /\ relay[c2].pc = "done"
    /\ SignerOf(c1) = SignerOf(c2)
    /\ relay[c1].request.nonce = relay[c2].request.nonce
    /\ mined[c1] = "executed" /\ mined[c2] = "reverted"
    /\ relay[c2].result.success = FALSE

\* The gas debits: the steps that commit an update of a user's gasCredit.
DebitCommits(d) ==
  /\ debits[d].pc = "read"
  /\ debits'[d].pc \in {"done", "updated"}
  /\ ledger'.creditUpdates # ledger.creditUpdates

\* C26: a user's gasCredit is never below zero, and a debit whose cost is at
\* least the user's balance when it commits leaves the balance at exactly
\* zero.
C26_GasCreditFloor ==
  /\ [](\A u \in Users : ledger.gasCredit[u] >= 0)
  /\ [][\A d \in Debits :
          LET u == debits[d].user.id IN
          DebitCommits(d) /\ debits'[d].costUGX >= ledger.gasCredit[u]
            => ledger'.gasCredit[u] = 0]_vars

RECURSIVE SumAmounts(_)
SumAmounts(rows) ==
  IF rows = <<>> THEN 0 ELSE Head(rows).amount + SumAmounts(Tail(rows))

\* The GasDrip rows of type USE of a user.
UseRows(u) == SelectSeq(ledger.gasDrip, LAMBDA r : r.userId = u /\ r.type = "USE")

\* No debit of the user stands between its two writes.
NoDebitHalfway(u) ==
  \A d \in Debits : debits[d].pc = "updated" => debits[d].user.id # u

\* C27: whenever no debit of a user is under way between its writes, the
\* amounts of the user's GasDrip rows of type USE add up to the amount by
\* which the user's gasCredit has been reduced since the start (5 at the
\* start), debits clamped at zero included.
C27_GasAuditBalance ==
  \A u \in Users :
    NoDebitHalfway(u) => SumAmounts(UseRows(u)) = 5 - ledger.gasCredit[u]

\* C28: whenever no debit of a user is under way between its writes, and so
\* also after a store failure between the two writes of a debit, the user
\* has as many GasDrip rows of type USE as committed gasCredit updates.
C28_GasDebitAtomic ==
  \A u \in Users :
    NoDebitHalfway(u) => Len(UseRows(u)) = ledger.creditUpdates[u]

\* The handler of a flow has answered after executeMetaTx returned a
\* success, or a failure.
AnsweredAfterSuccess(f) ==
  /\ flows[f].pc = "responded"
  /\ relay[f].pc = "done"
  /\ IsSuccessResult(relay[f].result)

HashReturned(f) ==
  /\ "transactionHash" \in DOMAIN flows[f].response
  /\ flows[f].response.transactionHash = relay[f].result.txHash

HashPersisted(f) ==
  \E i \in 1..Len(ledger.p2PTransaction) :
    ledger.p2PTransaction[i].txHash = relay[f].result.txHash

\* C29: once a handler has answered a request whose executeMetaTx call
\* returned a success, the transaction hash is in the response or in a
\* stored P2PTransaction row, also when a later write of the handler failed.
C29_HashNotLost ==
  \A f \in RelayCalls :
    AnsweredAfterSuccess(f) => HashReturned(f) \/ HashPersisted(f)

\* C30: when executeMetaTx has returned a failure, the step by which the
\* handler answers leaves gasCredit, the GasDrip ledger and the
\* P2PTransaction and MobileMoneyJob records as they were, and the answer is
\* the structured failure: status 400 with an error and the relay's error
\* message as details.
C30_RejectionLeavesAccounting ==
  [][\A f \in RelayCalls :
       /\ flows[f].pc = "execute"
       /\ relay[f].pc = "done"
       /\ IsFailureResult(relay[f].result)
       /\ flows'[f].pc # flows[f].pc
       => /\ ledger' = ledger
          /\ flows'[f].pc = "responded"
          /\ flows'[f].response.status = 400
          /\ flows'[f].response.details = relay[f].result.error]_vars

\* C30's case: one request was rejected by the forwarder's dry run for a
\* stale nonce and its handler has answered 400, after another request of
\* the same user was executed and debited.
C30_Witness ==
  \E f, g \in RelayCalls :
    /\ flows[f].pc = "responded" /\ flows[f].response.status = 400
    /\ relay[f].pc = "done" /\ relay[f].result.reason = "ERC2771ForwarderInvalidSigner"
    /\ flows[f].verified
    /\ flows[g].pc = "responded" /\ flows[g].response.status = 200
    /\ flows[g].user.id = flows[f].user.id
    /\ Len(ledger.gasDrip) = 1 /\ Len(ledger.p2PTransaction) = 1


\* C32: a ProcessedEvent row that has processed = true is still in the table
\* with processed = true after every step: live deliveries, scans, handler
\* failures, crashes and restarts neither clear the flag nor delete the row.
C32_ProcessedStays ==
  [][\A r \in db.processedEvent :
       r.processed => \E q \in db'.processedEvent : q.key = r.key /\ q.processed]_vars

\* C32's case: after a crash and a restart, with a transaction that threw
\* and an event whose handler ran twice (the second upsert met the row of the
\* first), the row of that event is there and processed.
C32_Witness ==
  /\ crashes = 1 /\ running
  /\ threw # {}
  /\ \E e \in Events : handlerRuns[e.id] >= 2 /\ HasProcessedRow(e)


\* C33 (as claimed): a processEvent call for a burn event turns a PENDING
\* withdrawal/send record COMPLETED only if the record is of the burning
\* wallet's user and its token amount is the amount the event burned.
C33_BurnMatchesAmount ==
  [][\A p \in HandlerInputs :
       (p.name = "UGDXBurnedForWithdrawal" /\ Submits(p)) =>
         \A i \in 1..Len(db.transaction) :
           (db.transaction[i].status = "PENDING" /\ db'.transaction[i].status = "COMPLETED")
             => /\ db.transaction[i].userId = UserOfWallet(p.user)
                /\ db.transaction[i].ugdxAmount = p.amount]_vars


\* C36 (as claimed): when two debits of the same user, of costs c1 and c2,
\* have both committed, the user's gasCredit is max(initial - c1 - c2, 0)
\* (5 at the start), in whatever order their reads and writes were taken.
C36_NoLostDebit ==
  \A u \in Users : \A d1, d2 \in Debits :
    (/\ d1 # d2
     /\ debits[d1].pc = "done" /\ debits[d2].pc = "done"
     /\ debits[d1].user.id = u /\ debits[d2].user.id = u
     /\ ledger.creditUpdates[u] = 2)
      => ledger.gasCredit[u] = Max(5 - debits[d1].costUGX - debits[d2].costUGX, 0)


\* The price-updated events marked processed.
ProcessedPriceUpdates ==
  {p \in HandlerInputs : p.name = "PriceUpdated" /\ HasProcessedRow(p)}

\* C38 (as claimed): once price-updated events have been processed, in
\* whatever order, the cached rate (row 1 of OraclePrice) is the new rate of
\* the processed event with the highest block number.
C38_RateCacheFresh ==
  ProcessedPriceUpdates # {} =>
    \E r \in db.oraclePrice, p \in ProcessedPriceUpdates :
      /\ r.id = 1
      /\ \A q \in ProcessedPriceUpdates : q.blockNumber <= p.blockNumber
      /\ r.currentRate = p.amount


\* The flow holds a request that sendOnChain returned for signing, and the
\* step is the client's second call with its signature over that request.
SecondCall(f) ==
  /\ flows[f].pc = "responded"
  /\ "metaTxRequest" \in DOMAIN flows[f].response
  /\ flows[f].handler = "sendOnChain"
  /\ flows'[f] # flows[f]

\* C40: when the signer's forwarder nonce is no longer the one of the
\* request sendOnChain returned for signing, the second call with the
\* signature over that request is answered 400 "Invalid signature", nothing
\* is handed to the relay and no transaction is submitted.
C40_StaleSignatureRejected ==
  [][\A f \in RelayCalls :
       (SecondCall(f)
        /\ flows[f].response.metaTxRequest.nonce # nonces[ToLowerCase(flows[f].request.from)])
         => /\ flows'[f].pc = "responded"
            /\ flows'[f].response = [status |-> 400, error |-> "Invalid signature"]
            /\ UNCHANGED <<relay, dryRuns, chainTxs, nonces, ledger>>]_vars

\* C40's case: a second call was refused as invalid after the signer's nonce
\* had moved on from 0 to 1 by another request of the same user, and no
\* relay call was made for it.
C40_Witness ==
  \E f, g \in RelayCalls :
    /\ f # g
    /\ flows[f].pc = "responded" /\ flows[f].handler = "sendOnChain"
    /\ flows[f].response = [status |-> 400, error |-> "Invalid signature"]
    /\ flows[f].signature =
         ClientSignature("own", flows[f].user.id, [flows[f].request EXCEPT !.nonce = 0])
    /\ flows[f].request.nonce = 1
    /\ relay[f].pc = "idle"
    /\ flows[g].user.id = flows[f].user.id /\ mined[g] # "none"


\* C35 (as claimed): the mobile-money rail is asked to pay the job of a
\* withdrawal at most once, whatever calls of processEvent are made and
\* whichever of their transactions are rolled back.
C35_SinglePayout ==
  \A j \in Jobs : mmRequests[j] <= 1


\* The step is a requestWithdrawal(amount) of the user, who holds at least
\* the amount, with neither contract paused.
WithdrawalOf(u, amount) ==
  /\ txCount' = txCount + 1
  /\ lastTx'.fn = "requestWithdrawal"
  /\ lastTx'.sender = u /\ lastTx'.amount = amount
  /\ amount > 0 /\ ugdx.balances[u] >= amount
  /\ ~ugdx.paused /\ ~exchange.paused

\* C31 (as claimed): requestWithdrawal(amount) by a user holding at least
\* amount UGDx is mined, lowers the caller's balance by exactly amount,
\* leaves the Exchange's own token balance as it was and emits
\* WithdrawalRequested(user, amount).
C31_WithdrawalBurnsCaller ==
  [][\A u \in Accounts, amount \in TokenAmounts :
       WithdrawalOf(u, amount) =>
         /\ lastTx'.status = "ok"
         /\ ugdx'.balances[u] = ugdx.balances[u] - amount
         /\ ugdx'.balances["exchange"] = ugdx.balances["exchange"]
         /\ \E i \in DOMAIN lastTx'.events :
              lastTx'.events[i] = [name |-> "WithdrawalRequested", user |-> u,
                                   ugdxAmount |-> amount]]_vars


\* The change from one rate to another, in whole basis points of the first,
\* is at most the limit: |newRate - oldRate| * 10000 < (limit + 1) * oldRate.
ChangeWithin(oldRate, newRate, limit) ==
  LET diff == IF newRate > oldRate THEN newRate - oldRate ELSE oldRate - newRate
  IN diff * 10000 < (limit + 1) * oldRate

\* The step is an updatePrice call that emitted the named event.
UpdateEmits(name) ==
  /\ oracleTxs' = oracleTxs + 1
  /\ oracleTx'.fn = "updatePrice" /\ oracleTx'.status = "ok"
  /\ \E i \in DOMAIN oracleTx'.events : oracleTx'.events[i].name = name

C37_P2PExactlyOnce ==
  /\ p2pStore.payouts <= 1
  /\ \A h \in P2PHashes : p2pStore.counted[h] <= 1


\* C39 (as claimed): however many confirmPayment calls are made for a job,
\* one after the other or at the same time, at most one adminMintUGDX
\* transaction is mined for it.
C39_SingleMint ==
  \A j \in DOMAIN payments.mints : payments.mints[j] <= 1

====
